---- MODULE Spec2Model ----
(***************************************************************************)
(* Batch recolor orchestrator (handleRecolorBatch, src/App.tsx) and the    *)
(* retry executor (withRetry, src/App.tsx:497-534) of ChromaThread AI.     *)
(*                                                                         *)
(* JavaScript runs every piece of code between two awaits to completion,   *)
(* so one action is one such piece: a UI event handler, or the             *)
(* continuation of an async function that runs when a promise (the         *)
(* external call, a setTimeout) settles.  React state is updated through   *)
(* functional updaters that are applied in the order they were queued;     *)
(* the handlers' closures read the state of the latest render.             *)
(***************************************************************************)
EXTENDS Integers, Sequences, FiniteSets, TLC

\* ------------------------------------------------------------------ bounds
\* images uploaded in one behaviour (ids 1..MaxUploads)
MaxUploads == 2
\* batch runs started in one behaviour
MaxStarts == 2
\* work items of all the batch runs started in one behaviour
MaxItems == 3
\* user edits (remove, select, toggle, tier, key) in one behaviour
MaxEdits == 2
\* retry budgets 0..MaxRetries given to a stand-alone withRetry
MaxRetries == 4
\* designs generated in one behaviour (ids 1..MaxDesigns)
MaxDesigns == 1
\* calls of handleGenerateImage that pass its guards, when it is examined alone
MaxGenRequests == 2
\* images in the workspace when the task list alone is examined
MaxTaskImages == 3

\* ------------------------------------------------------- program constants
DefaultRetries == 8
DelayFlashMs == 2000
DelayProMs == 5000

\* ------------------------------------------------------------- error texts
\* The external service fails with an opaque error; the code only looks for
\* substrings of error.toString().  MarkersIn[e] is the set of the markers
\* the code searches for that occur in the text e.
NoImageDataError == "Error: No image data returned from gemini-2.5-flash-image."
MaxAttemptsError == "Error: Maximum retry attempts exceeded for API quota."
NoError == "none"

MarkersIn ==
  [e \in { "ApiError: 429 RESOURCE_EXHAUSTED quota",
           "ApiError: 429 Too Many Requests",
           "ApiError: RESOURCE_EXHAUSTED",
           "ApiError: 500 INTERNAL",
           "ApiError: 503 UNAVAILABLE",
           "Error: Rpc failed due to xhr error",
           "Error: Rpc failed",
           "Error: xhr error",
           "ApiError: 404 Requested entity was not found.",
           "Error: APIKEY_ERROR",
           "ApiError: 429 APIKEY_ERROR quota",
           "ApiError: 503 Requested entity was not found.",
           "ApiError: 400 INVALID_ARGUMENT",
           NoImageDataError,
           MaxAttemptsError } |->
     CASE e = "ApiError: 429 RESOURCE_EXHAUSTED quota" -> {"429", "RESOURCE_EXHAUSTED"}
       [] e = "ApiError: 429 Too Many Requests" -> {"429"}
       [] e = "ApiError: RESOURCE_EXHAUSTED" -> {"RESOURCE_EXHAUSTED"}
       [] e = "ApiError: 500 INTERNAL" -> {"500"}
       [] e = "ApiError: 503 UNAVAILABLE" -> {"503"}
       [] e = "Error: Rpc failed due to xhr error" -> {"Rpc failed", "xhr error"}
       [] e = "Error: Rpc failed" -> {"Rpc failed"}
       [] e = "Error: xhr error" -> {"xhr error"}
       [] e = "ApiError: 404 Requested entity was not found." -> {"Requested entity was not found"}
       [] e = "Error: APIKEY_ERROR" -> {"APIKEY_ERROR"}
       [] e = "ApiError: 429 APIKEY_ERROR quota" -> {"429", "APIKEY_ERROR"}
       [] e = "ApiError: 503 Requested entity was not found." -> {"503", "Requested entity was not found"}
       [] OTHER -> {}]

\* String.prototype.includes, on the error texts of the model
Includes(errStr, marker) == marker \in MarkersIn[errStr]

\* errors a stand-alone withRetry is driven with: every marker alone, and mixes
RetryErrors == DOMAIN MarkersIn \ {MaxAttemptsError}

\* errors of the external recolor call inside a batch run
CallErrors ==
  { "ApiError: 429 RESOURCE_EXHAUSTED quota",
    "ApiError: 503 UNAVAILABLE",
    "Error: APIKEY_ERROR",
    "ApiError: 429 APIKEY_ERROR quota",
    NoImageDataError }

\* ------------------------------------------------------------- withRetry
\* The state of one invocation of withRetry.  st: "calling" (fn() is pending),
\* "sleeping" (the backoff timer is pending), "returned", "thrown", "idle".
\* calls, sleeps, raised and allTransient record what has happened: the number
\* of invocations of fn, the number of backoff sleeps, the error of the latest
\* failed attempt, and whether every failed attempt so far was transient.
\* backoff, jitter and delay are backoffDelay, jitter and finalDelay of the
\* latest retry, prevBackoff the backoffDelay of the retry before it, and
\* sameClass tells whether all retries so far had one classification.  warns
\* counts the console.warn calls and warn is the latest one.
\*
\* Times are counted in ticks of 1/64 ms: with baseDelay 2000 or 4000 and at
\* most 8 retries every product baseDelay * 2.5^n, n <= 7, and every jitter
\* for Math.random() a multiple of 1/4 is a whole number of ticks, as it is an
\* exact double in the code.
TicksPerMs == 64
DefaultBaseDelay == 4000
MinDelayMs == 2000

\* the values of Math.random(), in quarters: 0, 0.25, 0.5, 0.75
Randoms == 0 .. 3
\* Math.random() = 0.5, for which the jitter is 0
MidRandom == 2

NoWarn == [attempt |-> 0, retries |-> 0, class |-> "none", seconds |-> 0]

IdleRetry ==
  [st |-> "idle", retries |-> 0, attempt |-> 0, error |-> NoError,
   calls |-> 0, sleeps |-> 0, raised |-> NoError, allTransient |-> TRUE,
   baseDelay |-> DefaultBaseDelay, backoff |-> 0, prevBackoff |-> 0,
   sameClass |-> TRUE, jitter |-> 0, delay |-> 0, warns |-> 0, warn |-> NoWarn]

\* lines 511-516
IsRateLimit(errorStr) ==
  Includes(errorStr, "429") \/ Includes(errorStr, "RESOURCE_EXHAUSTED")

\* lines 512-516 without isRateLimit
IsTransient_ServerOnly(errorStr) ==
  \/ Includes(errorStr, "500")
  \/ Includes(errorStr, "503")
  \/ Includes(errorStr, "Rpc failed")
  \/ Includes(errorStr, "xhr error")

IsTransient(errorStr) ==
  \/ IsRateLimit(errorStr)
  \/ Includes(errorStr, "500")
  \/ Includes(errorStr, "503")
  \/ Includes(errorStr, "Rpc failed")
  \/ Includes(errorStr, "xhr error")

\* line 504: the loop test, then line 506 (fn is invoked), or line 533
WithRetryLoop(rs) ==
  IF rs.attempt <= rs.retries
    THEN [rs EXCEPT !.st = "calling", !.calls = @ + 1]
    ELSE [rs EXCEPT !.st = "thrown", !.error = MaxAttemptsError]

\* lines 502-506: entry with a retry budget
WithRetryEnter(retries) ==
  WithRetryLoop([IdleRetry EXCEPT !.retries = retries])

\* line 506: fn() resolved
WithRetryReturn(rs) == [rs EXCEPT !.st = "returned"]

\* line 518 with the budget test off by one
ShouldRetry_Strict(attempt, retries, errorStr) ==
  attempt < retries /\ IsTransient(errorStr)

\* line 518 without the classification
ShouldRetry_Unclassified(attempt, retries, errorStr) ==
  attempt <= retries

\* line 518: is the failed attempt followed by a sleep and another attempt
ShouldRetry(attempt, retries, errorStr) ==
  attempt <= retries /\ IsTransient(errorStr)

\* lines 519-520 with a factor below 1
RECURSIVE BackoffDelay_Shrinking(_, _, _)
BackoffDelay_Shrinking(baseDelay, isRateLimit, n) ==
  IF n = 0 THEN baseDelay * TicksPerMs
  ELSE BackoffDelay_Shrinking(baseDelay, isRateLimit, n - 1) \div 2

\* lines 519-520: baseDelay * Math.pow(backoffFactor, n) in ticks, n being
\* attempt - 1 and backoffFactor 2.5 for a rate limit, 2.0 otherwise
RECURSIVE BackoffDelay(_, _, _)
BackoffDelay(baseDelay, isRateLimit, n) ==
  IF n = 0 THEN baseDelay * TicksPerMs
  ELSE IF isRateLimit THEN (BackoffDelay(baseDelay, isRateLimit, n - 1) * 5) \div 2
  ELSE BackoffDelay(baseDelay, isRateLimit, n - 1) * 2

\* line 521: backoffDelay * 0.25 * (Math.random() * 2 - 1), Math.random() = rnd/4
Jitter(backoffDelay, rnd) ==
  IF rnd >= 2 THEN (backoffDelay * (rnd - 2)) \div 8
  ELSE 0 - ((backoffDelay * (2 - rnd)) \div 8)

\* line 522 without Math.max
FinalDelay_NoFloor(backoffDelay, jitter) == backoffDelay + jitter

\* line 522: Math.max(2000, backoffDelay + jitter)
FinalDelay(backoffDelay, jitter) ==
  IF backoffDelay + jitter < MinDelayMs * TicksPerMs
    THEN MinDelayMs * TicksPerMs
    ELSE backoffDelay + jitter

\* line 524: Math.round(finalDelay / 1000)
RoundSeconds(finalDelay) ==
  (finalDelay + 500 * TicksPerMs) \div (1000 * TicksPerMs)

\* line 524: what console.warn is given
WarnOf(seen, isRateLimit, finalDelay) ==
  [attempt |-> seen.attempt, retries |-> seen.retries,
   class |-> IF isRateLimit THEN "QUOTA EXHAUSTED" ELSE "Transient error",
   seconds |-> RoundSeconds(finalDelay)]

\* lines 519-526: the delay is computed, the warning is written and the
\* backoff timer is started
Backoff(seen, errorStr, rnd) ==
  LET isRateLimit == IsRateLimit(errorStr)
      backoffDelay == BackoffDelay(seen.baseDelay, isRateLimit, seen.attempt - 1)
      jitter == Jitter(backoffDelay, rnd)
      finalDelay == FinalDelay(backoffDelay, jitter)
  IN [seen EXCEPT !.st = "sleeping", !.sleeps = @ + 1,
                  !.prevBackoff = seen.backoff, !.backoff = backoffDelay,
                  !.sameClass = @ /\ (seen.sleeps = 0 \/
                                       seen.warn.class = WarnOf(seen, isRateLimit, finalDelay).class),
                  !.jitter = jitter, !.delay = finalDelay,
                  !.warns = @ + 1, !.warn = WarnOf(seen, isRateLimit, finalDelay)]

\* lines 507-531 with line 530 throwing the error of line 533
WithRetryCatch_Substitute(rs, error, rnd) ==
  LET attempt == rs.attempt + 1
      seen == [rs EXCEPT !.attempt = attempt, !.raised = error,
                         !.allTransient = @ /\ IsTransient(error)]
  IN IF ShouldRetry(attempt, rs.retries, error)
       THEN Backoff(seen, error, rnd)
       ELSE [seen EXCEPT !.st = "thrown",
                         !.error = IF attempt > rs.retries THEN MaxAttemptsError ELSE error]

\* lines 507-531 with the warning of line 524 written before line 518
WithRetryCatch_WarnAlways(rs, error, rnd) ==
  LET attempt == rs.attempt + 1
      seen == [rs EXCEPT !.attempt = attempt, !.raised = error,
                         !.allTransient = @ /\ IsTransient(error)]
  IN IF ShouldRetry(attempt, rs.retries, error)
       THEN Backoff(seen, error, rnd)
       ELSE [seen EXCEPT !.st = "thrown", !.error = error, !.warns = @ + 1]

\* lines 507-531 with the first failure's error classified at every failure
WithRetryCatch_FirstClass(rs, error, rnd) ==
  LET attempt == rs.attempt + 1
      seen == [rs EXCEPT !.attempt = attempt, !.raised = error,
                         !.allTransient = @ /\ IsTransient(error)]
      first == IF rs.warn.class = "none" THEN error
               ELSE IF rs.warn.class = "QUOTA EXHAUSTED" THEN "ApiError: 429 Too Many Requests"
               ELSE "ApiError: 503 UNAVAILABLE"
  IN IF ShouldRetry(attempt, rs.retries, first)
       THEN Backoff(seen, first, rnd)
       ELSE [seen EXCEPT !.st = "thrown", !.error = error]

\* lines 507-531: fn() rejected with error; rnd is what Math.random() gives
WithRetryCatch(rs, error, rnd) ==
  LET attempt == rs.attempt + 1
      seen == [rs EXCEPT !.attempt = attempt, !.raised = error,
                         !.allTransient = @ /\ IsTransient(error)]
  IN IF ShouldRetry(attempt, rs.retries, error)
       THEN Backoff(seen, error, rnd)
       ELSE [seen EXCEPT !.st = "thrown", !.error = error]

\* lines 526-527 then 504-506: the backoff timer fired
WithRetryContinue(rs) == WithRetryLoop(rs)


\* ------------------------------------------------------------------ state
VARIABLES
  images,             \* App state: ProcessedImage[] (src/App.tsx:13)
  settings,           \* App state: targetColors and modelTier (src/App.tsx:24)
  hasApiKey,          \* App state: "null", "true" or "false" (src/App.tsx:22)
  isProcessing,       \* App state (src/App.tsx:15)
  processingProgress, \* App state: <<completedTasks, totalTasks>> as a fraction
  rateLimitActive,    \* App state (src/App.tsx:19)
  runs,               \* the invocations of handleRecolorBatch, in start order
  inflight,           \* instrumentation: <<run, task index>> of pending recolor calls
  nextId,             \* the next fresh image id (uuidv4)
  keyChecked,         \* has the mount effect's hasSelectedApiKey() resolved
  edits,              \* the number of user edits so far (bounds the behaviours)
  wr,                 \* a stand-alone invocation of withRetry
  sampler,            \* a color sampler: an ImageSampler or the reference
                      \* swatch of Controls, with its image and its canvas
  isSampling,         \* App state (src/App.tsx:16)
  mode,               \* App state: "recolor" or "generate" (src/App.tsx:12)
  generatedDesigns,   \* App state: ProcessedImage[] (src/App.tsx:14)
  genSettings,        \* App state: the prompt (src/App.tsx:36)
  gens,               \* the pending invocations of handleGenerateImage
  nextGenId,          \* the next fresh design id (uuidv4)
  lastStart           \* what the step just taken was, if it was a call of
                      \* handleRecolorBatch: "empty" (return of line 80),
                      \* "credential" (return of line 84) or "run"; else "none"

\* the state of the design lab
genVars == << generatedDesigns, genSettings, gens, nextGenId >>

appVars ==
  << images, settings, hasApiKey, isProcessing, processingProgress,
     rateLimitActive, runs, inflight, nextId, keyChecked, edits, wr,
     isSampling, mode, genVars, sampler >>

vars == << appVars, lastStart >>

\* the step is not a call of handleRecolorBatch
NoStart == lastStart' = "none"

Undefined == "undefined"

Range(seq) == { seq[k] : k \in DOMAIN seq }

\* src/types.ts:51-56, the first colors of COLOR_LIBRARY
PureWhite == [name |-> "Pure White", hex |-> "#FFFFFF"]
MidnightBlack == [name |-> "Midnight Black", hex |-> "#1A1A1A"]
HeatherGray == [name |-> "Heather Gray", hex |-> "#9B9B9B"]
ColorLibrary == {PureWhite, MidnightBlack, HeatherGray}

\* String.prototype.toLowerCase on the hex strings of the model
ToLowerCase(hex) ==
  CASE hex = "#FFFFFF" -> "#ffffff"
    [] hex = "#1A1A1A" -> "#1a1a1a"
    [] hex = "#9B9B9B" -> "#9b9b9b"
    [] OTHER -> hex

\* what the external service answers with (an opaque encoded image)
Payloads == {"data:image/png;base64,AAAA"}

\* src/App.tsx:192
GenerateFailedMessage == "Generation failed. Verify your prompt and API project status."

\* src/App.tsx:217
SampledName(hex) == IF hex = "#9B9B9B" THEN "Sampled #9B9B9B" ELSE "Sampled"

\* colors that are not library entries: a color-picker value and a sampled pixel
CustomColors == {[name |-> "My Custom Color", hex |-> "#ffffff"]}
SampledHexes == {"#9B9B9B"}
Prompts == {"", "a linen summer dress"}

Messages ==
  [apiKey |-> "API Key invalid or missing for selected engine.",
   rateLimit |-> "Quota limit hit. System is retrying with exponential backoff.",
   generic |-> "Generation error. Please try again."]

NoLast == [outcome |-> "none", error |-> NoError, calls |-> 0]

\* src/components/Controls.tsx: a hex string of a sampler is a sequence of
\* its characters.
\* lines 101, 111, 524 and 526, and the initial hoverColor of lines 41 and 520
DefaultHex == << "#", "f", "f", "f", "f", "f", "f" >>

\* a pixel of a canvas nothing was drawn on
TransparentBlack == [r |-> 0, g |-> 0, b |-> 0, a |-> 0]

\* a canvas element before anything is drawn: 300 x 150, transparent black
BlankCanvas == [width |-> 300, height |-> 150, painted |-> FALSE]

\* a call of the sampling function: the pointer, the natural size of the image
\* at that time, the pixel asked for, the pixel data and the string returned
NoCall == [ev |-> "none", x |-> 0, y |-> 0, nw |-> 0, nh |-> 0, px |-> 0, py |-> 0,
           pixel |-> TransparentBlack, hex |-> DefaultHex, isLoaded |-> FALSE]

\* no sampler is mounted
NoSampler ==
  [kind |-> "none", image |-> [nw |-> 0, nh |-> 0, dw |-> 0, dh |-> 0, seed |-> 0],
   natural |-> [w |-> 0, h |-> 0], canvas |-> BlankCanvas, isLoaded |-> FALSE,
   hoverColor |-> DefaultHex, last |-> NoCall, first |-> NoCall]

\* the state after construction other than the workspace and the selection
InitRest ==
  /\ hasApiKey = "null"
  /\ isProcessing = FALSE
  /\ processingProgress = <<0, 1>>
  /\ rateLimitActive = FALSE
  /\ runs = << >>
  /\ inflight = {}
  /\ nextId = 1
  /\ keyChecked = FALSE
  /\ edits = 0
  /\ isSampling = FALSE
  /\ mode = "recolor"
  /\ generatedDesigns = << >>
  /\ genSettings = [prompt |-> ""]
  /\ gens = {}
  /\ nextGenId = 1
  /\ lastStart = "none"

InitApp ==
  /\ images = << >>
  /\ settings = [targetColors |-> <<PureWhite>>, modelTier |-> "flash"]
  /\ InitRest

Init == InitApp /\ wr = IdleRetry /\ sampler = NoSampler

\* --------------------------------------------------- handleRecolorBatch
\* lines 94-96: the inner loop over the selected colors
RECURSIVE PushColors(_, _, _, _)
PushColors(tasks, img, colors, j) ==
  IF j > Len(colors) THEN tasks
  ELSE PushColors(Append(tasks, [imageId |-> img.id, color |-> colors[j]]),
                  img, colors, j + 1)

\* lines 92-97: the outer loop over the images
RECURSIVE PushImages(_, _, _, _)
PushImages(tasks, imgs, colors, i) ==
  IF i > Len(imgs) THEN tasks
  ELSE PushImages(PushColors(tasks, imgs[i], colors, 1), imgs, colors, i + 1)

\* lines 92-97 with the two loops exchanged
BuildTasks_ColorMajor(imgs, colors) ==
  [n \in 1 .. (Len(imgs) * Len(colors)) |->
     [imageId |-> imgs[((n - 1) % Len(imgs)) + 1].id,
      color |-> colors[((n - 1) \div Len(imgs)) + 1]]]

\* lines 92-97: the task list
BuildTasks(imgs, colors) == PushImages(<< >>, imgs, colors, 1)

\* line 101 without errorMsg: undefined
MarkProcessing_KeepError(imgs) ==
  [k \in DOMAIN imgs |-> [imgs[k] EXCEPT !.status = "processing"]]

\* line 101
MarkProcessing(imgs) ==
  [k \in DOMAIN imgs |->
     [imgs[k] EXCEPT !.status = "processing", !.errorMsg = Undefined]]

\* lines 106-117 with line 113 counting the results before the filter
ApplySuccess_StaleIndex(imgs, task, processedBase64) ==
  [k \in DOMAIN imgs |->
     IF imgs[k].id = task.imageId
       THEN LET existingResults ==
                  SelectSeq(imgs[k].results,
                            LAMBDA r : r.color.hex # task.color.hex)
            IN [imgs[k] EXCEPT
                  !.results = Append(existingResults,
                                     [color |-> task.color, url |-> processedBase64]),
                  !.status = "completed",
                  !.activeResultIndex = <<Len(imgs[k].results)>>]
       ELSE imgs[k]]

\* lines 106-117 with line 111 putting the new variant first
ApplySuccess_Prepend(imgs, task, processedBase64) ==
  [k \in DOMAIN imgs |->
     IF imgs[k].id = task.imageId
       THEN LET existingResults ==
                  SelectSeq(imgs[k].results,
                            LAMBDA r : r.color.hex # task.color.hex)
            IN [imgs[k] EXCEPT
                  !.results = << [color |-> task.color, url |-> processedBase64] >>
                                \o existingResults,
                  !.status = "completed",
                  !.activeResultIndex = <<0>>]
       ELSE imgs[k]]

\* lines 106-117 with the new variant in place of the whole result list
ApplySuccess_Overwrite(imgs, task, processedBase64) ==
  [k \in DOMAIN imgs |->
     IF imgs[k].id = task.imageId
       THEN [imgs[k] EXCEPT
               !.results = << [color |-> task.color, url |-> processedBase64] >>,
               !.status = "completed",
               !.activeResultIndex = <<0>>]
       ELSE imgs[k]]

\* lines 106-117 with an image that is no longer in the list put back
ApplySuccess_Reinsert(imgs, task, processedBase64) ==
  IF \E k \in DOMAIN imgs : imgs[k].id = task.imageId
    THEN [k \in DOMAIN imgs |->
            IF imgs[k].id = task.imageId
              THEN LET existingResults ==
                         SelectSeq(imgs[k].results,
                                   LAMBDA r : r.color.hex # task.color.hex)
                   IN [imgs[k] EXCEPT
                         !.results = Append(existingResults,
                                            [color |-> task.color, url |-> processedBase64]),
                         !.status = "completed",
                         !.activeResultIndex = <<Len(existingResults)>>]
              ELSE imgs[k]]
    ELSE Append(imgs, [id |-> task.imageId,
                       results |-> << [color |-> task.color, url |-> processedBase64] >>,
                       status |-> "completed", errorMsg |-> Undefined,
                       activeResultIndex |-> <<0>>])

\* lines 106-117: the updater queued when the recolor call succeeded
ApplySuccess(imgs, task, processedBase64) ==
  [k \in DOMAIN imgs |->
     IF imgs[k].id = task.imageId
       THEN LET existingResults ==
                  SelectSeq(imgs[k].results,
                            LAMBDA r : r.color.hex # task.color.hex)
            IN [imgs[k] EXCEPT
                  !.results = Append(existingResults,
                                     [color |-> task.color, url |-> processedBase64]),
                  !.status = "completed",
                  !.activeResultIndex = <<Len(existingResults)>>]
       ELSE imgs[k]]

\* line 122
IsApiKeyError(errStr) ==
  Includes(errStr, "Requested entity was not found") \/ Includes(errStr, "APIKEY_ERROR")

\* lines 132-136 with the two tests in the other order
ErrorMessage_RateFirst(errStr) ==
  IF IsRateLimit(errStr) THEN Messages.rateLimit
  ELSE IF IsApiKeyError(errStr) THEN Messages.apiKey
  ELSE Messages.generic

\* lines 132-136
ErrorMessage(errStr) ==
  IF IsApiKeyError(errStr) THEN Messages.apiKey
  ELSE IF IsRateLimit(errStr) THEN Messages.rateLimit
  ELSE Messages.generic

\* lines 127-140 without the test of img.results.length
ApplyFailure_Always(imgs, task, errStr) ==
  [k \in DOMAIN imgs |->
     IF imgs[k].id = task.imageId
       THEN [imgs[k] EXCEPT !.status = "error", !.errorMsg = ErrorMessage(errStr)]
       ELSE imgs[k]]

\* lines 127-140: the updater queued when the recolor call finally failed
ApplyFailure(imgs, task, errStr) ==
  [k \in DOMAIN imgs |->
     IF imgs[k].id = task.imageId /\ Len(imgs[k].results) = 0
       THEN [imgs[k] EXCEPT !.status = "error", !.errorMsg = ErrorMessage(errStr)]
       ELSE imgs[k]]

\* line 144 with one delay for both tiers
InterItemDelay_Flat(tier) == DelayFlashMs

\* line 144
InterItemDelay(tier) == IF tier = "pro" THEN DelayProMs ELSE DelayFlashMs

\* line 105: recolorImageWithGemini(task...) is called for item i of the run,
\* which enters withRetry with its default budget (lines 541, 499)
Dispatch(run, i) ==
  [run EXCEPT !.pc = "await", !.i = i,
              !.retry = WithRetryEnter(DefaultRetries),
              !.dispatched = Append(@, run.tasks[i]),
              !.timer = 0, !.last = NoLast]

\* lines 142-144 inside the try block: a failed item is not counted
AfterItem_SkipFailed(run, outcome, error) ==
  [run EXCEPT !.pc = "delay",
              !.completedTasks = IF outcome = "success" THEN @ + 1 ELSE @,
              !.succeeded = IF outcome = "success"
                              THEN @ \cup {run.tasks[run.i].imageId} ELSE @,
              !.retry = IdleRetry,
              !.timer = InterItemDelay(run.settings.modelTier),
              !.last = [outcome |-> outcome, error |-> error,
                        calls |-> run.retry.calls]]

\* lines 142-144 with line 144 reading the tier selected now
AfterItem_LiveTier(run, outcome, error) ==
  [run EXCEPT !.pc = "delay",
              !.completedTasks = @ + 1,
              !.succeeded = IF outcome = "success"
                              THEN @ \cup {run.tasks[run.i].imageId} ELSE @,
              !.retry = IdleRetry,
              !.timer = InterItemDelay(settings.modelTier),
              !.last = [outcome |-> outcome, error |-> error,
                        calls |-> run.retry.calls]]

\* lines 142-144 with a failed item counted in the catch block as well
AfterItem_CountFailureTwice(run, outcome, error) ==
  [run EXCEPT !.pc = "delay",
              !.completedTasks = IF outcome = "failure" THEN @ + 2 ELSE @ + 1,
              !.succeeded = IF outcome = "success"
                              THEN @ \cup {run.tasks[run.i].imageId} ELSE @,
              !.retry = IdleRetry,
              !.timer = InterItemDelay(run.settings.modelTier),
              !.last = [outcome |-> outcome, error |-> error,
                        calls |-> run.retry.calls]]

\* lines 142-144: after the item, whatever its outcome.  succeeded and last
\* record the images that got a result in this run and how this item ended.
AfterItem(run, outcome, error) ==
  [run EXCEPT !.pc = "delay",
              !.completedTasks = @ + 1,
              !.succeeded = IF outcome = "success"
                              THEN @ \cup {run.tasks[run.i].imageId} ELSE @,
              !.retry = IdleRetry,
              !.timer = InterItemDelay(run.settings.modelTier),
              !.last = [outcome |-> outcome, error |-> error,
                        calls |-> run.retry.calls]]

\* the work items of the runs started so far
RECURSIVE ItemsOf(_)
ItemsOf(rr) == IF rr = << >> THEN 0 ELSE Len(Head(rr).tasks) + ItemsOf(Tail(rr))

\* a start that stays within the bounds on runs and work items
WithinItems ==
  /\ Len(runs) < MaxStarts
  /\ ItemsOf(runs) + Len(images) * Len(settings.targetColors) <= MaxItems

\* line 83 leaving the key state as it is
KeyAfterReject_Keep(key) == key

\* line 83: setHasApiKey(false)
KeyAfterReject(key) == "false"

\* lines 79-105: one invocation of the handler, up to its first await
HandleRecolorBatch ==
  IF Len(images) = 0 \/ Len(settings.targetColors) = 0
    THEN lastStart' = "empty" /\ UNCHANGED appVars
  ELSE IF settings.modelTier = "pro" /\ hasApiKey # "true"
    THEN /\ hasApiKey' = KeyAfterReject(hasApiKey)
         /\ lastStart' = "credential"
         /\ UNCHANGED << images, settings, isProcessing, processingProgress,
                         rateLimitActive, runs, inflight, nextId, keyChecked, edits, wr, isSampling, mode, genVars, sampler >>
  ELSE LET tasks == BuildTasks(images, settings.targetColors)
           run == [pc |-> "start", tasks |-> tasks, i |-> 0,
                   totalTasks |-> Len(tasks), completedTasks |-> 0,
                   settings |-> settings, retry |-> IdleRetry,
                   dispatched |-> << >>, succeeded |-> {}, timer |-> 0,
                   last |-> NoLast]
       IN /\ isProcessing' = TRUE
          /\ processingProgress' = <<0, 1>>
          /\ rateLimitActive' = FALSE
          /\ images' = MarkProcessing(images)
          /\ runs' = Append(runs, Dispatch(run, 1))
          /\ inflight' = inflight \cup {<<Len(runs) + 1, 1>>}
          /\ isSampling' = FALSE
          /\ lastStart' = "run"
          /\ UNCHANGED << settings, hasApiKey, nextId, keyChecked, edits, wr, mode, genVars, sampler >>

\* withRetry run to its end on a script of attempt outcomes ("ok", or the error
\* the attempt fails with); a script that is too short leaves it pending.  The
\* jitter only sets how long a sleep lasts, so one value of it is followed.
RECURSIVE RunWithRetry(_, _)
RunWithRetry(rs, script) ==
  IF rs.st = "sleeping" THEN RunWithRetry(WithRetryContinue(rs), script)
  ELSE IF rs.st # "calling" \/ script = << >> THEN rs
  ELSE IF Head(script) = "ok" THEN RunWithRetry(WithRetryReturn(rs), Tail(script))
  ELSE RunWithRetry(WithRetryCatch(rs, Head(script), MidRandom), Tail(script))

RECURSIVE Repeat(_, _)
Repeat(e, k) == IF k = 0 THEN << >> ELSE <<e>> \o Repeat(e, k - 1)

\* how many attempts of a call fail before its last one: none, one, the budget
FailCounts == {0, 1, DefaultRetries}

\* what the attempts of one recolor call do: k failures with one error, then a
\* success or one more failure
CallScripts ==
  { Repeat(e, k) \o <<f>> :
      e \in CallErrors, k \in FailCounts, f \in CallErrors \cup {"ok"} }

\* how a recolor call can end: withRetry, entered with its default budget
\* (lines 541, 499), run to its end on a script that it consumes entirely
CallOutcomes ==
  { rs \in { RunWithRetry(WithRetryEnter(DefaultRetries), s) : s \in CallScripts } :
      rs.st \in {"returned", "thrown"} }

\* The pending recolor call of run r settles.  withRetry shares no state with
\* the rest of the application (its only effects are its result and
\* console.warn), so its attempts and backoff sleeps are taken in one step:
\* retry is the state withRetry ends in.  Then the loop body goes on:
\* lines 106-117 after a return, lines 118-141 after a throw, and lines 142-144.
CallSettles(r, retry, url) ==
  /\ runs[r].pc = "await"
  /\ runs[r].retry = WithRetryEnter(DefaultRetries)
  /\ LET run == [runs[r] EXCEPT !.retry = retry]
         task == run.tasks[run.i]
         errStr == retry.error
     IN /\ IF retry.st = "returned"
             THEN /\ images' = ApplySuccess(images, task, url)
                  /\ runs' = [runs EXCEPT ![r] = AfterItem(run, "success", NoError)]
                  /\ UNCHANGED << rateLimitActive, hasApiKey >>
             ELSE /\ rateLimitActive' = (IsRateLimit(errStr) \/ rateLimitActive)
                  /\ hasApiKey' = IF IsApiKeyError(errStr) /\ run.settings.modelTier = "pro"
                                    THEN "false" ELSE hasApiKey
                  /\ images' = ApplyFailure(images, task, errStr)
                  /\ runs' = [runs EXCEPT ![r] = AfterItem(run, "failure", errStr)]
        /\ processingProgress' = <<run.completedTasks + 1, run.totalTasks>>
        /\ inflight' = inflight \ {<<r, run.i>>}
  /\ UNCHANGED << settings, isProcessing, nextId, keyChecked, edits, wr, isSampling, mode, genVars, sampler >>
  /\ NoStart

\* line 103 with a failure leaving the loop
HasNext_AbortOnFailure(run) ==
  run.i < Len(run.tasks) /\ run.last.outcome # "failure"

\* is there a next item after item i (line 103)
HasNext(run) == run.i < Len(run.tasks)

\* the inter-item timer of run r fired: the next item is dispatched (lines 103-105)
\* or the run ends (lines 146-147)
DelayElapsed(r) ==
  /\ runs[r].pc = "delay"
  /\ IF HasNext(runs[r])
       THEN /\ runs' = [runs EXCEPT ![r] = Dispatch(@, runs[r].i + 1)]
            /\ inflight' = inflight \cup {<<r, runs[r].i + 1>>}
            /\ UNCHANGED << isProcessing, rateLimitActive >>
       ELSE /\ runs' = [runs EXCEPT ![r].pc = "done", ![r].timer = 0,
                                     ![r].last = NoLast, ![r].succeeded = {}]
            /\ isProcessing' = FALSE
            /\ rateLimitActive' = FALSE
            /\ UNCHANGED inflight
  /\ UNCHANGED << images, settings, hasApiKey, processingProgress, nextId, keyChecked, edits, wr, isSampling, mode, genVars, sampler >>
  /\ NoStart


\* ------------------------------------------------------------ UI events
\* a generation that stays within the bound on designs
WithinDesigns == nextGenId <= MaxDesigns

\* a user edit, counted
CountEdit == edits < MaxEdits /\ edits' = edits + 1

\* src/App.tsx:228: the key screen replaces the whole workspace
UnlockScreen ==
  hasApiKey = "false" /\ (settings.modelTier = "pro" \/ mode = "generate")

\* src/components/Controls.tsx:454 without isProcessing
ButtonDisabled_NotBusy ==
  \/ isSampling
  \/ mode = "recolor" /\ (Len(images) = 0 \/ Len(settings.targetColors) = 0)
  \/ mode = "generate" /\ genSettings.prompt = ""

\* src/components/Controls.tsx:454
ButtonDisabled ==
  \/ isProcessing
  \/ isSampling
  \/ mode = "recolor" /\ (Len(images) = 0 \/ Len(settings.targetColors) = 0)
  \/ mode = "generate" /\ genSettings.prompt = ""

\* src/App.tsx:64-72: a chosen file has been read
FileLoaded ==
  /\ nextId <= MaxUploads
  /\ mode = "recolor"
  /\ images' = Append(images, [id |-> nextId, results |-> << >>, status |-> "pending",
                               errorMsg |-> Undefined, activeResultIndex |-> << >>])
  /\ nextId' = nextId + 1
  /\ UNCHANGED << settings, hasApiKey, isProcessing, processingProgress,
                  rateLimitActive, runs, inflight, keyChecked, edits, wr, isSampling, mode, genVars, sampler >>
  /\ NoStart

\* src/App.tsx:205-208
RemoveImage(id) ==
  /\ CountEdit
  /\ ~UnlockScreen /\ mode = "recolor" /\ ~isSampling
  /\ \E k \in DOMAIN images : images[k].id = id
  /\ images' = SelectSeq(images, LAMBDA img : img.id # id)
  /\ UNCHANGED << settings, hasApiKey, isProcessing, processingProgress,
                  rateLimitActive, runs, inflight, nextId, keyChecked, wr, isSampling, mode, genVars, sampler >>
  /\ NoStart

\* src/App.tsx:210-214 with the status written as well
SetActiveResult_MarkCompleted(imageId, index) ==
  /\ CountEdit
  /\ ~UnlockScreen /\ mode = "recolor" /\ ~isSampling
  /\ \E k \in DOMAIN images :
       images[k].id = imageId /\ index \in 0 .. (Len(images[k].results) - 1)
  /\ images' = [k \in DOMAIN images |->
                  IF images[k].id = imageId
                    THEN [images[k] EXCEPT !.activeResultIndex = <<index>>,
                                           !.status = "completed"]
                    ELSE images[k]]
  /\ UNCHANGED << settings, hasApiKey, isProcessing, processingProgress,
                  rateLimitActive, runs, inflight, nextId, keyChecked, wr, isSampling, mode, genVars, sampler >>
  /\ NoStart

\* src/App.tsx:210-214, from the swatch row of line 426-427
SetActiveResult(imageId, index) ==
  /\ CountEdit
  /\ ~UnlockScreen /\ mode = "recolor" /\ ~isSampling
  /\ \E k \in DOMAIN images :
       images[k].id = imageId /\ index \in 0 .. (Len(images[k].results) - 1)
  /\ images' = [k \in DOMAIN images |->
                  IF images[k].id = imageId
                    THEN [images[k] EXCEPT !.activeResultIndex = <<index>>]
                    ELSE images[k]]
  /\ UNCHANGED << settings, hasApiKey, isProcessing, processingProgress,
                  rateLimitActive, runs, inflight, nextId, keyChecked, wr, isSampling, mode, genVars, sampler >>
  /\ NoStart

\* src/components/Controls.tsx:44-55
ToggleColor(color) ==
  /\ CountEdit
  /\ ~UnlockScreen /\ mode = "recolor"
  /\ LET same(c) == ToLowerCase(c.hex) = ToLowerCase(color.hex)
         exists == \E k \in DOMAIN settings.targetColors : same(settings.targetColors[k])
     IN settings' =
          [settings EXCEPT !.targetColors =
             IF exists THEN SelectSeq(@, LAMBDA c : ~same(c)) ELSE Append(@, color)]
  /\ UNCHANGED << images, hasApiKey, isProcessing, processingProgress,
                  rateLimitActive, runs, inflight, nextId, keyChecked, wr, isSampling, mode, genVars, sampler >>
  /\ NoStart

\* src/types.ts:51-56: the tab of COLOR_LIBRARY that is open, in its order
CategoryColors == << PureWhite, MidnightBlack, HeatherGray >>

\* src/components/Controls.tsx:60-64 with the hex strings compared as they are
RECURSIVE PushMissing_CaseSensitive(_, _, _)
PushMissing_CaseSensitive(newColors, categoryColors, k) ==
  IF k > Len(categoryColors) THEN newColors
  ELSE IF \E j \in DOMAIN newColors : newColors[j].hex = categoryColors[k].hex
    THEN PushMissing_CaseSensitive(newColors, categoryColors, k + 1)
    ELSE PushMissing_CaseSensitive(Append(newColors, categoryColors[k]), categoryColors, k + 1)

\* src/components/Controls.tsx:60-64: the forEach over the colors of the tab
RECURSIVE PushMissing(_, _, _)
PushMissing(newColors, categoryColors, k) ==
  IF k > Len(categoryColors) THEN newColors
  ELSE IF \E j \in DOMAIN newColors :
            ToLowerCase(newColors[j].hex) = ToLowerCase(categoryColors[k].hex)
    THEN PushMissing(newColors, categoryColors, k + 1)
    ELSE PushMissing(Append(newColors, categoryColors[k]), categoryColors, k + 1)

\* src/components/Controls.tsx:57-66 (Add Set)
SelectCurrentCategory ==
  /\ CountEdit
  /\ ~UnlockScreen /\ mode = "recolor"
  /\ settings' = [settings EXCEPT !.targetColors = PushMissing(@, CategoryColors, 1)]
  /\ UNCHANGED << images, hasApiKey, isProcessing, processingProgress,
                  rateLimitActive, runs, inflight, nextId, keyChecked, wr, isSampling, mode, genVars, sampler >>
  /\ NoStart

\* src/components/Controls.tsx:68-70
ClearColors ==
  /\ CountEdit
  /\ ~UnlockScreen /\ mode = "recolor"
  /\ settings' = [settings EXCEPT !.targetColors = << >>]
  /\ UNCHANGED << images, hasApiKey, isProcessing, processingProgress,
                  rateLimitActive, runs, inflight, nextId, keyChecked, wr, isSampling, mode, genVars, sampler >>
  /\ NoStart

\* src/components/Controls.tsx:142 and 156
SetModelTier(tier) ==
  /\ CountEdit
  /\ ~UnlockScreen /\ mode = "recolor"
  /\ settings.modelTier # tier
  /\ settings' = [settings EXCEPT !.modelTier = tier]
  /\ UNCHANGED << images, hasApiKey, isProcessing, processingProgress,
                  rateLimitActive, runs, inflight, nextId, keyChecked, wr, isSampling, mode, genVars, sampler >>
  /\ NoStart

\* src/App.tsx:43-50
CheckApiKey(selected) ==
  /\ ~keyChecked
  /\ keyChecked' = TRUE
  /\ hasApiKey' = IF selected THEN "true" ELSE "false"
  /\ UNCHANGED << images, settings, isProcessing, processingProgress,
                  rateLimitActive, runs, inflight, nextId, edits, wr, isSampling, mode, genVars, sampler >>
  /\ NoStart

\* src/App.tsx:52-56
HandleSelectKey ==
  /\ CountEdit
  /\ UnlockScreen
  /\ hasApiKey' = "true"
  /\ UNCHANGED << images, settings, isProcessing, processingProgress,
                  rateLimitActive, runs, inflight, nextId, keyChecked, wr, isSampling, mode, genVars, sampler >>
  /\ NoStart

\* src/App.tsx:253-257
ContinueWithFlash ==
  /\ CountEdit
  /\ UnlockScreen
  /\ settings' = [settings EXCEPT !.modelTier = "flash"]
  /\ mode' = "recolor"
  /\ hasApiKey' = "null"
  /\ UNCHANGED << images, isProcessing, processingProgress,
                  rateLimitActive, runs, inflight, nextId, keyChecked, wr, isSampling, genVars, sampler >>
  /\ NoStart

\* src/components/Controls.tsx:72-79, from the color picker (line 322) whose
\* value is a lowercase hex, or from the reference swatch (line 218)
AddCustomColor(color) ==
  /\ CountEdit
  /\ ~UnlockScreen /\ mode = "recolor"
  /\ LET exists == \E k \in DOMAIN settings.targetColors :
                      ToLowerCase(settings.targetColors[k].hex) = ToLowerCase(color.hex)
     IN settings' = IF exists THEN settings
                    ELSE [settings EXCEPT !.targetColors = Append(@, color)]
  /\ UNCHANGED << images, hasApiKey, isProcessing, processingProgress,
                  rateLimitActive, runs, inflight, nextId, keyChecked, wr, isSampling, mode, genVars, sampler >>
  /\ NoStart

\* src/components/Controls.tsx:334 and src/App.tsx:329, 389
SetSampling(sampling) ==
  /\ CountEdit
  /\ ~UnlockScreen /\ mode = "recolor"
  /\ isSampling # sampling
  /\ Len(images) > 0
  /\ isSampling' = sampling
  /\ UNCHANGED << images, settings, hasApiKey, isProcessing, processingProgress,
                  rateLimitActive, runs, inflight, nextId, keyChecked, wr, mode, genVars, sampler >>
  /\ NoStart

\* src/App.tsx:216-226, from a click in the ImageSampler of line 386
HandleSampleColor(hex) ==
  /\ CountEdit
  /\ ~UnlockScreen /\ mode = "recolor"
  /\ isSampling /\ Len(images) > 0
  /\ LET newColor == [name |-> SampledName(hex), hex |-> hex]
         exists == \E k \in DOMAIN settings.targetColors :
                      ToLowerCase(settings.targetColors[k].hex) = ToLowerCase(hex)
     IN settings' = IF exists THEN settings
                    ELSE [settings EXCEPT !.targetColors = Append(@, newColor)]
  /\ UNCHANGED << images, hasApiKey, isProcessing, processingProgress,
                  rateLimitActive, runs, inflight, nextId, keyChecked, wr, isSampling, mode, genVars, sampler >>
  /\ NoStart

\* ------------------------------------------------------------ color sampling
\* src/components/Controls.tsx: getRefColor (lines 100-114) of the reference
\* swatch and the ImageSampler component (lines 516-567).
\*
\* A hex string is a sequence of its characters.
HexDigits == << "0", "1", "2", "3", "4", "5", "6", "7",
                "8", "9", "a", "b", "c", "d", "e", "f" >>
UpperHexDigits == << "0", "1", "2", "3", "4", "5", "6", "7",
                     "8", "9", "A", "B", "C", "D", "E", "F" >>

\* Number.prototype.toString(16) of a positive integer
RECURSIVE ToString16(_)
ToString16(v) ==
  IF v < 16 THEN << HexDigits[v + 1] >>
  ELSE Append(ToString16(v \div 16), HexDigits[(v % 16) + 1])

\* String.prototype.toUpperCase on hexadecimal digits
ToUpperCaseDigits(str) ==
  [k \in DOMAIN str |->
     IF \E d \in DOMAIN HexDigits : HexDigits[d] = str[k]
       THEN UpperHexDigits[CHOOSE d \in DOMAIN HexDigits : HexDigits[d] = str[k]]
       ELSE str[k]]

\* lines 537 and 113 without the (1 << 24) and the slice(1)
HexOfPixel_Unpadded(pixel) ==
  << "#" >> \o ToUpperCaseDigits(ToString16(pixel.r * 65536 + pixel.g * 256 + pixel.b))

\* lines 537 and 113:
\* `#${((1 << 24) + (R << 16) + (G << 8) + B).toString(16).slice(1).toUpperCase()}`
HexOfPixel(pixel) ==
  << "#" >> \o ToUpperCaseDigits(Tail(ToString16(16777216 + pixel.r * 65536 + pixel.g * 256 + pixel.b)))

\* The products and quotients of lines 106-107, 112 and 530-534 are IEEE 754
\* doubles.  For whole numbers x >= 0, n >= 0 and d > 0 well below 2^26 the
\* double x * (n / d) is described by whole-number arithmetic: the quotient
\* n / d is rounded to 53 bits, its error being eps * 2^(t-52) / d with
\* 2^t <= n/d < 2^(t+1), and the product is rounded to 53 bits again.
RECURSIVE Log2Ratio(_, _)
Log2Ratio(n, d) ==
  IF n < d THEN Log2Ratio(2 * n, d) - 1
  ELSE IF n >= 2 * d THEN Log2Ratio(n, 2 * d) + 1
  ELSE 0

RECURSIVE Pow2(_)
Pow2(k) == IF k = 0 THEN 1 ELSE 2 * Pow2(k - 1)

RECURSIVE Pow2Mod(_, _)
Pow2Mod(k, d) == IF k = 0 THEN 1 % d ELSE (2 * Pow2Mod(k - 1, d)) % d

\* eps: the double n / d minus the quotient n / d, in units of 2^(t-52) / d
\* (round to nearest, ties to even)
QuotientError(n, d) ==
  LET e == 52 - Log2Ratio(n, d)
      rem == ((n % d) * Pow2Mod(e, d)) % d
      odd == (((n % (2 * d)) * Pow2Mod(e, 2 * d)) % (2 * d)) >= d
  IN IF 2 * rem < d \/ (2 * rem = d /\ ~odd) THEN 0 - rem ELSE d - rem

\* the double x * (n / d) for x >= 0: its integer part and whether it is whole
ScaledDouble(x, n, d) ==
  IF x = 0 \/ n = 0 THEN [int |-> 0, whole |-> TRUE]
  ELSE IF (x * n) % d # 0 THEN [int |-> (x * n) \div d, whole |-> FALSE]
  ELSE LET K == (x * n) \div d
           eps == QuotientError(n, d)
           j == Log2Ratio(K, 1)
           room == d * Pow2(j - Log2Ratio(n, d))
       IN IF eps = 0 THEN [int |-> K, whole |-> TRUE]
          ELSE IF eps > 0 THEN [int |-> K, whole |-> 2 * x * eps <= room]
          ELSE IF (IF K = Pow2(j) THEN 4 ELSE 2) * x * (0 - eps) <= room
                 THEN [int |-> K, whole |-> TRUE]
                 ELSE [int |-> K - 1, whole |-> FALSE]

\* lines 530-534: Math.floor(x * (natural / rect))
FloorScaled(x, n, d) ==
  IF x >= 0 THEN ScaledDouble(x, n, d).int
  ELSE LET v == ScaledDouble(0 - x, n, d)
       IN IF v.whole THEN 0 - v.int ELSE 0 - v.int - 1

\* lines 106-107 and 112: x * (natural / rect) given to getImageData, whose
\* arguments are converted to long, that is truncated toward zero
LongScaled(x, n, d) ==
  IF x >= 0 THEN ScaledDouble(x, n, d).int
  ELSE 0 - ScaledDouble(0 - x, n, d).int

\* The images that are sampled: natural size nw x nh, shown in an element of
\* dw x dh CSS pixels, with the pixels SourcePixel gives.
Channels == << 0, 10, 255, 15, 16, 171, 9 >>

SourcePixel(image, px, py) ==
  [r |-> Channels[((px + image.seed) % Len(Channels)) + 1],
   g |-> Channels[((py + 2 * px) % Len(Channels)) + 1],
   b |-> Channels[((px + py) % Len(Channels)) + 1],
   a |-> 255]

SampledImages ==
  { [nw |-> 200, nh |-> 200, dw |-> 100, dh |-> 100, seed |-> 0],
    [nw |-> 30, nh |-> 20, dw |-> 22, dh |-> 10, seed |-> 1],
    [nw |-> 3, nh |-> 2, dw |-> 4, dh |-> 6, seed |-> 2] }

\* the pointer positions of the mouse events, relative to the element; -1 is
\* a pointer on the border of the surrounding element
PointerXs(d) == { -1, 0, d \div 2, d - 1 }
PointerYs(d) == { 0, d \div 2 }

\* a component just mounted on an image: the <img> has no natural size yet
\* and the hidden canvas is blank (lines 516-521 and 38-42)
Mounted(kind, image) ==
  [NoSampler EXCEPT !.kind = kind, !.image = image]

\* CanvasRenderingContext2D.getImageData(px, py, 1, 1).data
GetImageData(s, px, py) ==
  IF /\ s.canvas.painted
     /\ 0 <= px /\ px < s.canvas.width
     /\ 0 <= py /\ py < s.canvas.height
    THEN SourcePixel(s.image, px, py)
    ELSE TransparentBlack

\* lines 523-538 with scaleX used for both axes
GetHexColor_OneScale(s, x, y) ==
  LET pixelX == FloorScaled(x, s.natural.w, s.image.dw)
      pixelY == FloorScaled(y, s.natural.w, s.image.dw)
      pixelData == GetImageData(s, pixelX, pixelY)
  IN [px |-> pixelX, py |-> pixelY, pixel |-> pixelData, hex |-> HexOfPixel(pixelData)]

\* lines 523-538: ImageSampler.getHexColor; the element and the canvas exist
\* whenever a mouse event reaches the component
GetHexColor(s, x, y) ==
  LET pixelX == FloorScaled(x, s.natural.w, s.image.dw)
      pixelY == FloorScaled(y, s.natural.h, s.image.dh)
      pixelData == GetImageData(s, pixelX, pixelY)
  IN [px |-> pixelX, py |-> pixelY, pixel |-> pixelData, hex |-> HexOfPixel(pixelData)]

\* lines 100-114: Controls.getRefColor
GetRefColor(s, x, y) ==
  LET pixelX == LongScaled(x, s.natural.w, s.image.dw)
      pixelY == LongScaled(y, s.natural.h, s.image.dh)
      pixelData == GetImageData(s, pixelX, pixelY)
  IN [px |-> pixelX, py |-> pixelY, pixel |-> pixelData, hex |-> HexOfPixel(pixelData)]

\* the sampling function of the mounted component
Sample(s, x, y) ==
  IF s.kind = "ImageSampler" THEN GetHexColor(s, x, y) ELSE GetRefColor(s, x, y)

\* what a mouse event at (x, y) read
CallOf(s, ev, x, y) ==
  LET read == Sample(s, x, y)
  IN [ev |-> ev, x |-> x, y |-> y, nw |-> s.natural.w, nh |-> s.natural.h,
      px |-> read.px, py |-> read.py,
      pixel |-> read.pixel, hex |-> read.hex, isLoaded |-> s.isLoaded]

\* the latest call of the component is kept, and the first read of a pixel
Recorded(s, call) ==
  [s EXCEPT !.last = call,
            !.first = IF s.first.ev = "none" THEN [call EXCEPT !.ev = "read"] ELSE @]

SamplerFrame ==
  /\ UNCHANGED << images, settings, hasApiKey, isProcessing, processingProgress,
                  rateLimitActive, runs, inflight, nextId, keyChecked, edits, wr,
                  isSampling, mode, genVars >>
  /\ NoStart

\* the browser has read the size of the image: naturalWidth and naturalHeight
\* are set, the load event is still to come
ImageAvailable ==
  /\ sampler.kind # "none"
  /\ sampler.natural.w = 0
  /\ sampler' = [sampler EXCEPT !.natural = [w |-> sampler.image.nw, h |-> sampler.image.nh]]
  /\ SamplerFrame

\* lines 540-550 (handleImageLoad) and 90-98 (drawRefToCanvas): the load event
HandleImageLoad ==
  /\ sampler.kind # "none"
  /\ sampler.natural.w > 0
  /\ ~sampler.canvas.painted
  /\ sampler' = [sampler EXCEPT
                   !.canvas = [width |-> sampler.natural.w, height |-> sampler.natural.h,
                               painted |-> TRUE],
                   !.isLoaded = TRUE]
  /\ SamplerFrame

\* lines 552-559 (handleMouseMove) and line 217
HandleMouseMove(x, y) ==
  /\ sampler.kind # "none"
  /\ LET call == CallOf(sampler, "move", x, y)
     IN sampler' = [Recorded(sampler, call) EXCEPT !.hoverColor = call.hex]
  /\ SamplerFrame

\* lines 561-567 (handleClick, the color goes to onColorPicked) and line 218
\* (the color goes to addCustomColor)
HandleClick(x, y) ==
  /\ sampler.kind # "none"
  /\ sampler' = Recorded(sampler, CallOf(sampler, "click", x, y))
  /\ SamplerFrame

\* ------------------------------------------------------------ design lab
\* src/components/Controls.tsx:124 and 130
SetMode(m) ==
  /\ ~UnlockScreen
  /\ mode # m
  /\ mode' = m
  /\ UNCHANGED << images, settings, hasApiKey, isProcessing, processingProgress,
                  rateLimitActive, runs, inflight, nextId, keyChecked, edits, wr,
                  isSampling, genVars, sampler >>
  /\ NoStart

\* src/components/Controls.tsx:401-403
UpdateGenSettings(prompt) ==
  /\ ~UnlockScreen /\ mode = "generate"
  /\ genSettings.prompt # prompt
  /\ genSettings' = [genSettings EXCEPT !.prompt = prompt]
  /\ UNCHANGED << images, settings, hasApiKey, isProcessing, processingProgress,
                  rateLimitActive, runs, inflight, nextId, keyChecked, edits, wr,
                  isSampling, mode, generatedDesigns, gens, nextGenId, sampler >>
  /\ NoStart

\* src/App.tsx:171-182 without the results of lines 174-178
ApplyGenerated_NoResult(designs, newGenId, generatedUrl, prompt) ==
  [k \in DOMAIN designs |->
     IF designs[k].id = newGenId
       THEN [designs[k] EXCEPT !.status = "completed", !.activeResultIndex = <<0>>]
       ELSE designs[k]]

\* src/App.tsx:171-182: the updater queued when the generate call succeeded
ApplyGenerated(designs, newGenId, generatedUrl, prompt) ==
  [k \in DOMAIN designs |->
     IF designs[k].id = newGenId
       THEN [designs[k] EXCEPT
               !.results = << [url |-> generatedUrl, prompt |-> prompt] >>,
               !.status = "completed",
               !.activeResultIndex = <<0>>]
       ELSE designs[k]]

\* src/App.tsx:188-194 without the id test of line 189
ApplyGenerateFailure_EveryDesign(designs, newGenId) ==
  [k \in DOMAIN designs |->
     [designs[k] EXCEPT !.status = "error", !.errorMsg = GenerateFailedMessage]]

\* src/App.tsx:188-194: the updater queued when the generate call failed
ApplyGenerateFailure(designs, newGenId) ==
  [k \in DOMAIN designs |->
     IF designs[k].id = newGenId
       THEN [designs[k] EXCEPT !.status = "error", !.errorMsg = GenerateFailedMessage]
       ELSE designs[k]]

\* src/App.tsx:150-170: one invocation of the handler, up to its await
HandleGenerateImage ==
  IF genSettings.prompt = ""
    THEN lastStart' = "noPrompt" /\ UNCHANGED appVars
  ELSE IF hasApiKey # "true"
    THEN /\ hasApiKey' = "false"
         /\ lastStart' = "noKey"
         /\ UNCHANGED << images, settings, isProcessing, processingProgress,
                         rateLimitActive, runs, inflight, nextId, keyChecked, edits, wr,
                         isSampling, mode, genVars, sampler >>
  ELSE LET placeholder == [id |-> nextGenId, results |-> << >>, status |-> "processing",
                           errorMsg |-> Undefined, activeResultIndex |-> << >>]
       IN /\ isProcessing' = TRUE
          /\ isSampling' = FALSE
          /\ generatedDesigns' = <<placeholder>> \o generatedDesigns
          /\ gens' = gens \cup {[newGenId |-> nextGenId, genSettings |-> genSettings]}
          /\ nextGenId' = nextGenId + 1
          /\ lastStart' = "generate"
          /\ UNCHANGED << images, settings, hasApiKey, processingProgress, rateLimitActive,
                          runs, inflight, nextId, keyChecked, edits, wr, mode, genSettings, sampler >>

\* src/App.tsx:170-197: the pending generate call of invocation g settles;
\* generateImageWithGemini goes through withRetry (line 622) like the recolor call
GenerateSettles(g, retry, url) ==
  /\ g \in gens
  /\ IF retry.st = "returned"
       THEN /\ generatedDesigns' =
                 ApplyGenerated(generatedDesigns, g.newGenId, url, g.genSettings.prompt)
            /\ UNCHANGED hasApiKey
       ELSE /\ hasApiKey' = IF IsApiKeyError(retry.error) THEN "false" ELSE hasApiKey
            /\ generatedDesigns' = ApplyGenerateFailure(generatedDesigns, g.newGenId)
  /\ isProcessing' = FALSE
  /\ gens' = gens \ {g}
  /\ UNCHANGED << images, settings, processingProgress, rateLimitActive, runs, inflight,
                  nextId, keyChecked, edits, wr, isSampling, mode, genSettings, nextGenId, sampler >>
  /\ NoStart

\* src/App.tsx:205-208 with isGen, from the design card of line 475
RemoveDesign(id) ==
  /\ ~UnlockScreen /\ mode = "generate"
  /\ \E k \in DOMAIN generatedDesigns : generatedDesigns[k].id = id
  /\ generatedDesigns' = SelectSeq(generatedDesigns, LAMBDA img : img.id # id)
  /\ UNCHANGED << images, settings, hasApiKey, isProcessing, processingProgress,
                  rateLimitActive, runs, inflight, nextId, keyChecked, edits, wr,
                  isSampling, mode, genSettings, gens, nextGenId, sampler >>
  /\ NoStart

\* src/App.tsx:200-203 behind the action button
OnProcess ==
  /\ ~UnlockScreen
  /\ ~ButtonDisabled
  /\ IF mode = "recolor"
       THEN WithinItems /\ HandleRecolorBatch
       ELSE WithinDesigns /\ HandleGenerateImage

\* ------------------------------------------------------- specifications
RunStep ==
  \E r \in DOMAIN runs :
    \/ \E retry \in CallOutcomes, url \in Payloads : CallSettles(r, retry, url)
    \/ DelayElapsed(r)

\* what a start reads: the images, the selected colors, the tier, the key
InputStep ==
  \/ FileLoaded
  \/ \E c \in ColorLibrary \cup Range(settings.targetColors) : ToggleColor(c)
  \/ \E c \in CustomColors : AddCustomColor(c)
  \/ \E t \in {"flash", "pro"} : SetModelTier(t)
  \/ \E b \in BOOLEAN : CheckApiKey(b)

UiStep ==
  \/ InputStep
  \/ \E id \in 1 .. MaxUploads : RemoveImage(id)
  \/ \E id \in 1 .. MaxUploads, index \in 0 .. (MaxItems - 1) : SetActiveResult(id, index)
  \/ HandleSelectKey
  \/ ContinueWithFlash
  \/ \E b \in BOOLEAN : SetSampling(b)
  \/ \E hex \in SampledHexes : HandleSampleColor(hex)

\* the design lab: mode switch, prompt, the generate call, the design cards
GenStep ==
  \/ \E m \in {"recolor", "generate"} : SetMode(m)
  \/ \E p \in Prompts : UpdateGenSettings(p)
  \/ \E g \in gens, retry \in CallOutcomes, url \in Payloads : GenerateSettles(g, retry, url)
  \/ \E id \in 1 .. MaxDesigns : RemoveDesign(id)

\* the application as the user drives it
Next == OnProcess \/ RunStep \/ UiStep

Spec == Init /\ [][Next]_vars

\* the application with both of its modes
NextGenerate == Next \/ GenStep

SpecGenerate == Init /\ [][NextGenerate]_vars

\* the handler called whatever the action button shows
StartRequest ==
  /\ WithinItems
  /\ HandleRecolorBatch

NextHandler == StartRequest \/ RunStep \/ InputStep

SpecHandler == Init /\ [][NextHandler]_vars

\* every pending promise settles: each attempt of the external call resolves or
\* fails, and every timer fires
FairSpec == Spec /\ WF_vars(RunStep)

\* handleRecolorBatch called once on any workspace of at most MaxTaskImages
\* pending images, in any order, and any selection of library colors
SeqsOver(S, n) ==
  UNION { { f \in [1 .. m -> S] : \A a, b \in 1 .. m : a # b => f[a] # f[b] } : m \in 0 .. n }

InitTasks ==
  /\ InitRest
  /\ wr = IdleRetry
  /\ sampler = NoSampler
  /\ \E ids \in SeqsOver(1 .. MaxTaskImages, MaxTaskImages),
        colors \in SeqsOver(ColorLibrary, Cardinality(ColorLibrary)) :
       /\ images = [k \in DOMAIN ids |->
                      [id |-> ids[k], results |-> << >>, status |-> "pending",
                       errorMsg |-> Undefined, activeResultIndex |-> << >>]]
       /\ settings = [targetColors |-> colors, modelTier |-> "flash"]

FirstStart == runs = << >> /\ HandleRecolorBatch

SpecTasks == InitTasks /\ [][FirstStart]_vars

\* the selection of colors edited in every way the controls offer, from any
\* workspace and any selection of library colors, and a run started on it
ColorStep ==
  \/ \E c \in ColorLibrary \cup Range(settings.targetColors) : ToggleColor(c)
  \/ \E c \in CustomColors : AddCustomColor(c)
  \/ SelectCurrentCategory
  \/ ClearColors
  \/ \E b \in BOOLEAN : SetSampling(b)
  \/ \E hex \in SampledHexes : HandleSampleColor(hex)

NextColors == ColorStep \/ FirstStart

SpecColors == InitTasks /\ [][NextColors]_vars

\* handleGenerateImage called in any state, whatever the action button shows,
\* next to everything that changes what it reads or the entries it wrote
GenRequest == nextGenId <= MaxGenRequests /\ HandleGenerateImage

KeyStep ==
  \/ \E b \in BOOLEAN : CheckApiKey(b)
  \/ HandleSelectKey

NextDesigns ==
  \/ GenRequest
  \/ GenStep
  \/ \E id \in 1 .. MaxGenRequests : RemoveDesign(id)
  \/ FileLoaded
  \/ KeyStep

SpecDesigns == Init /\ [][NextDesigns]_vars

\* withRetry alone, with the budgets 0..MaxRetries and the default one, and an
\* operation that resolves or fails as it likes
RetryBudgets == (0 .. MaxRetries) \cup {DefaultRetries}
BaseDelays == {MinDelayMs, DefaultBaseDelay}

InitRetry ==
  /\ InitApp
  /\ sampler = NoSampler
  /\ \E retries \in RetryBudgets, baseDelay \in BaseDelays :
       wr = [WithRetryEnter(retries) EXCEPT !.baseDelay = baseDelay]

FnResolves ==
  /\ wr.st = "calling"
  /\ wr' = WithRetryReturn(wr)
  /\ UNCHANGED << images, settings, hasApiKey, isProcessing, processingProgress,
                  rateLimitActive, runs, inflight, nextId, keyChecked, edits, isSampling, mode, genVars, sampler >>
  /\ NoStart

FnRejects(e, rnd) ==
  /\ wr.st = "calling"
  /\ wr' = WithRetryCatch(wr, e, rnd)
  /\ UNCHANGED << images, settings, hasApiKey, isProcessing, processingProgress,
                  rateLimitActive, runs, inflight, nextId, keyChecked, edits, isSampling, mode, genVars, sampler >>
  /\ NoStart

SleepElapsed ==
  /\ wr.st = "sleeping"
  /\ wr' = WithRetryContinue(wr)
  /\ UNCHANGED << images, settings, hasApiKey, isProcessing, processingProgress,
                  rateLimitActive, runs, inflight, nextId, keyChecked, edits, isSampling, mode, genVars, sampler >>
  /\ NoStart

NextRetry == FnResolves \/ (\E e \in RetryErrors, rnd \in Randoms : FnRejects(e, rnd)) \/ SleepElapsed

SpecRetry == InitRetry /\ [][NextRetry]_vars

\* a sampler alone: one of the two components is mounted on one of the images,
\* and the image events and the mouse events come in any order
InitSampler ==
  /\ InitApp
  /\ wr = IdleRetry
  /\ \E kind \in {"ImageSampler", "Controls"}, image \in SampledImages :
       sampler = Mounted(kind, image)

MouseStep ==
  \E x \in PointerXs(sampler.image.dw), y \in PointerYs(sampler.image.dh) :
    HandleMouseMove(x, y) \/ HandleClick(x, y)

NextSampler == ImageAvailable \/ HandleImageLoad \/ MouseStep

SpecSampler == InitSampler /\ [][NextSampler]_vars


\* ----------------------------------------------------------- withRetry claims
\* the six transient markers of the retry policy, as the text of the error
HasTransientMarker(e) ==
  MarkersIn[e] \cap {"429", "RESOURCE_EXHAUSTED", "500", "503", "Rpc failed", "xhr error"} # {}

\* C1: with a retry budget R >= 0, when every attempt fails with a transient
\* error the operation has been invoked exactly R + 1 times when the error is
\* propagated, and it is never invoked more than R + 1 times.
C1_RetryBudget ==
  /\ wr.calls <= wr.retries + 1
  /\ (wr.st = "thrown" /\ wr.allTransient) => wr.calls = wr.retries + 1

\* C1 happens: the default budget of 8 is used up by 9 transient failures
C1_Witness ==
  /\ wr.st = "thrown" /\ wr.allTransient
  /\ wr.retries = DefaultRetries /\ wr.calls = 9 /\ wr.sleeps = 8

\* C2: a failed attempt is followed by a sleep and another attempt only if its
\* error text holds a transient marker; an error with none of the markers is
\* propagated by the very step in which the attempt failed, with no sleep and
\* no further invocation, whatever budget remains.
C2_FatalNotRetried ==
  [][ /\ (wr'.sleeps > wr.sleeps \/ wr'.calls > wr.calls) => HasTransientMarker(wr'.raised)
      /\ (wr'.attempt > wr.attempt /\ ~HasTransientMarker(wr'.raised))
            => /\ wr'.st = "thrown"
               /\ wr'.error = wr'.raised
               /\ wr'.sleeps = wr.sleeps
               /\ wr'.calls = wr.calls
      /\ wr.st = "thrown" => wr' = wr ]_vars

\* C2 happens: a fatal error on the first attempt, with budget left
C2_Witness ==
  /\ wr.st = "thrown" /\ ~HasTransientMarker(wr.error)
  /\ wr.calls = 1 /\ wr.sleeps = 0 /\ wr.retries = DefaultRetries

\* C3: when withRetry fails, the error it throws is the error of the last
\* attempt it made, never a substitute; and it returns normally only when its
\* last attempt resolved.
C3_LastErrorRethrown ==
  /\ wr.st = "thrown" =>
       /\ wr.raised # NoError
       /\ wr.error = wr.raised
       /\ wr.attempt = wr.calls
  /\ wr.st = "returned" => wr.attempt = wr.calls - 1

\* C3 happens: retries, then an error is thrown when the budget is used up
C3_Witness ==
  /\ wr.st = "thrown" /\ wr.sleeps = wr.retries /\ wr.retries >= 2
  /\ wr.error = "ApiError: 503 UNAVAILABLE"


\* -------------------------------------------------------- orchestrator claims
\* the image with the given id, as a set (empty once the image is removed)
ImageOf(imgs, id) == { imgs[k] : k \in { j \in DOMAIN imgs : imgs[j].id = id } }

\* this step is the one in which the pending item of run r ended
Settles(r) ==
  /\ r \in DOMAIN runs
  /\ runs[r].pc = "await"
  /\ runs'[r].pc = "delay"

\* C4: a failed item never aborts the run: the items dispatched so far are the
\* first items of the queue, in queue order, one more than the items counted
\* while a call is pending, and all of them once the run has ended.
C4_EveryItemDispatched ==
  \A r \in DOMAIN runs :
    LET run == runs[r]
        n == Len(run.dispatched)
    IN /\ run.pc \in {"await", "delay", "done"}
       /\ n <= Len(run.tasks)
       /\ run.dispatched = SubSeq(run.tasks, 1, n)
       /\ n = run.completedTasks + (IF run.pc = "await" THEN 1 ELSE 0)
       /\ run.pc = "done" => run.dispatched = run.tasks

\* C4 happens: the first item failed for a credential error, the second one is
\* dispatched
C4_Witness ==
  \E r \in DOMAIN runs :
    /\ runs[r].pc = "await" /\ runs[r].i = 2
    /\ runs[r].succeeded = {}
    /\ \E img \in ImageOf(images, runs[r].tasks[1].imageId) :
         img.status = "error" /\ img.errorMsg = Messages.apiKey

\* run r has ended with every item counted and the application is inactive
AtEnd(r) ==
  IF r \in DOMAIN runs
    THEN /\ runs[r].pc = "done"
         /\ runs[r].completedTasks = runs[r].totalTasks
         /\ ~isProcessing
    ELSE FALSE

\* C5: a run is never marked inactive before all its items are counted, and
\* every started run reaches its end, where completedTasks = totalTasks and
\* isProcessing is false.
C5_RunTerminates ==
  /\ [](\A r \in DOMAIN runs :
          /\ runs[r].completedTasks <= runs[r].totalTasks
          /\ runs[r].pc # "done" => isProcessing
          /\ runs[r].pc = "done" => runs[r].completedTasks = runs[r].totalTasks)
  /\ \A r \in 1 .. MaxStarts : (r \in DOMAIN runs) ~> AtEnd(r)

\* C5 happens: a run of two items has ended with every item failed
C5_Witness ==
  /\ ~isProcessing
  /\ Len(runs) = 1 /\ runs[1].pc = "done" /\ runs[1].totalTasks = 2
  /\ Len(images) = 2
  /\ \A k \in DOMAIN images : images[k].status = "error" /\ images[k].results = << >>

\* C6: at most one recolor call is pending, and it is the call for the current
\* item of the only run that has not ended.
C6_OneInFlight ==
  /\ Cardinality(inflight) <= 1
  /\ Cardinality({ r \in DOMAIN runs : runs[r].pc # "done" }) <= 1
  /\ \A r \in DOMAIN runs :
       /\ runs[r].pc = "await" <=> <<r, runs[r].i>> \in inflight
       /\ runs[r].pc = "await" => runs[r].retry.st = "calling"

\* C6 happens: the call for the third item of a run is pending
C6_Witness ==
  \E r \in DOMAIN runs : inflight = {<<r, 3>>} /\ runs[r].completedTasks = 2

\* C7: a start request made while a run is active is rejected by the handler:
\* no step adds a run while an earlier run has not ended.
C7_NoReentrantStart ==
  [][ (\E r \in DOMAIN runs : runs[r].pc # "done") => Len(runs') = Len(runs) ]_vars

\* C8: when an item fails for an image that got a result from an earlier item
\* of the same run, the image stays completed, keeps its results, and carries
\* no error message.
C8_FailureAfterSuccess ==
  [][ \A r \in DOMAIN runs :
        (Settles(r) /\ runs'[r].last.outcome = "failure") =>
          LET id == runs[r].tasks[runs[r].i].imageId
          IN id \in runs[r].succeeded =>
               \A k \in DOMAIN images :
                 images[k].id = id =>
                   /\ images'[k].status = "completed"
                   /\ images'[k].results = images[k].results
                   /\ images'[k].errorMsg = Undefined ]_vars

\* C9: when an item finally fails and its image has no result, the image gets
\* status error, keeps no result, and gets the message of the category of the
\* error: credential first, then rate limit, then generic; the three messages
\* differ.
C9_Category(e) ==
  IF MarkersIn[e] \cap {"Requested entity was not found", "APIKEY_ERROR"} # {}
    THEN "API Key invalid or missing for selected engine."
  ELSE IF MarkersIn[e] \cap {"429", "RESOURCE_EXHAUSTED"} # {}
    THEN "Quota limit hit. System is retrying with exponential backoff."
  ELSE "Generation error. Please try again."

C9_FailureMessage ==
  [][ \A r \in DOMAIN runs :
        (Settles(r) /\ runs'[r].last.outcome = "failure") =>
          /\ Cardinality({Messages.apiKey, Messages.rateLimit, Messages.generic}) = 3
          /\ Len(images') = Len(images)
          /\ \A k \in DOMAIN images :
               (images[k].id = runs[r].tasks[runs[r].i].imageId
                  /\ images[k].results = << >>) =>
                 /\ images'[k].status = "error"
                 /\ images'[k].results = << >>
                 /\ images'[k].errorMsg = C9_Category(runs'[r].last.error) ]_vars

\* C9 happens: the only item failed with a rate-limit error on all 9 attempts
C9_Witness ==
  \E r \in DOMAIN runs :
    /\ runs[r].pc = "delay" /\ runs[r].totalTasks = 1
    /\ runs[r].last.outcome = "failure" /\ runs[r].last.calls = DefaultRetries + 1
    /\ runs[r].last.error = "ApiError: 429 RESOURCE_EXHAUSTED quota"
    /\ \E img \in ImageOf(images, runs[r].tasks[1].imageId) :
         /\ img.status = "error" /\ img.results = << >>
         /\ img.errorMsg = Messages.rateLimit

\* C10: right after an item succeeded, its image, if still in the workspace,
\* is completed and its active result is the variant of the item's color.
C10_ActiveIsNewVariant ==
  [][ \A r \in DOMAIN runs :
        (Settles(r) /\ runs'[r].last.outcome = "success") =>
          LET task == runs[r].tasks[runs[r].i]
          IN \A img \in ImageOf(images', task.imageId) :
               /\ img.status = "completed"
               /\ Len(img.activeResultIndex) = 1
               /\ img.activeResultIndex[1] \in 0 .. (Len(img.results) - 1)
               /\ img.results[img.activeResultIndex[1] + 1].color.hex = task.color.hex ]_vars

\* C10 happens: a second run wrote the same color again on an image that had
\* two variants, and the rewritten variant is the active one
C10_Witness ==
  \E r \in DOMAIN runs :
    /\ r = 2 /\ runs[r].pc = "delay" /\ runs[r].last.outcome = "success"
    /\ \E img \in ImageOf(images, runs[r].tasks[runs[r].i].imageId) :
         /\ Len(img.results) = 2
         /\ img.activeResultIndex = <<1>>
         /\ img.results[2].color = runs[r].tasks[runs[r].i].color
         /\ runs[1].tasks[1].color = runs[r].tasks[runs[r].i].color

\* C11: no image has two result variants whose color hex is the same when
\* compared case-insensitively.
C11_NoDuplicateHex ==
  \A k \in DOMAIN images :
    \A a, b \in DOMAIN images[k].results :
      a # b => ToLowerCase(images[k].results[a].color.hex)
                 # ToLowerCase(images[k].results[b].color.hex)

\* C12: the step that starts a run of N = |images| x |colors| items leaves every
\* image of the workspace processing with no error message and the progress
\* at 0 of N, while the first call is pending and no item has ended.
C12_StartResetsState ==
  [][ Len(runs') = Len(runs) + 1 =>
        LET run == runs'[Len(runs')]
        IN /\ run.totalTasks = Len(images) * Len(settings.targetColors)
           /\ run.totalTasks = Len(run.tasks)
           /\ run.completedTasks = 0
           /\ processingProgress' = <<0, 1>>
           /\ isProcessing'
           /\ Len(images') = Len(images)
           /\ \A k \in DOMAIN images' :
                /\ images'[k].id = images[k].id
                /\ images'[k].status = "processing"
                /\ images'[k].errorMsg = Undefined
           /\ run.pc = "await" /\ run.i = 1 /\ Len(run.dispatched) = 1
           /\ run.retry.calls = 1 /\ run.retry.attempt = 0 ]_vars

\* C12 happens: a second run has started on an image that the first run left
\* in error; the image is processing again and its message is gone
C12_Witness ==
  /\ Len(runs) = 2 /\ runs[1].pc = "done"
  /\ runs[2].pc = "await" /\ runs[2].i = 1 /\ runs[2].completedTasks = 0
  /\ \E k \in DOMAIN images :
       /\ images[k].id = runs[1].tasks[1].imageId
       /\ images[k].results = << >>
       /\ images[k].status = "processing"
       /\ images[k].errorMsg = Undefined

\* the step just taken was a call of handleRecolorBatch that started no run
Rejected == lastStart \in {"empty", "credential"}

\* C13 as stated: a rejected start request changes neither the images, nor
\* the progress, nor the processing flag, nor the key state hasApiKey.
C13_RejectionMutatesNothing ==
  [][ Rejected' =>
        UNCHANGED << images, processingProgress, isProcessing, hasApiKey >> ]_vars

\* C13 amended: a rejected start request changes neither the images, nor the
\* progress, nor the processing flag, nor any run; a rejection for an empty
\* image or color list leaves hasApiKey alone as well, and a rejection of the
\* pro tier without a confirmed key sets hasApiKey to false.
C13_RejectionFrame ==
  [][ Rejected' =>
        /\ UNCHANGED << images, processingProgress, isProcessing, rateLimitActive,
                        settings, runs, inflight, isSampling, mode, genVars >>
        /\ lastStart' = "empty" => UNCHANGED hasApiKey
        /\ lastStart' = "credential" => hasApiKey' = "false" ]_vars

\* C13 happens: a pro-tier start without a confirmed key was rejected after an
\* earlier run had completed an image; the key state, unset before, is false
C13_Witness ==
  /\ lastStart = "credential" /\ hasApiKey = "false" /\ ~keyChecked
  /\ settings.modelTier = "pro" /\ ~isProcessing
  /\ \E k \in DOMAIN images : images[k].status = "completed"

\* C14: every rejected start request reports the guard that failed; the only
\* report the handler makes is the key screen shown when hasApiKey is false.
C14_RejectionReported ==
  [][ Rejected' => (lastStart' = "credential" /\ UnlockScreen') ]_vars

\* C15: the task list of a run has |I| x |C| items and its item at 0-based
\* position i*|C|+j is the pair of image I[i] and color C[j]; when either list
\* is empty no run and no item exists.
C15_TaskOrder ==
  LET I == images
      C == settings.targetColors
  IN /\ (Len(I) = 0 \/ Len(C) = 0) => runs = << >>
     /\ \A r \in DOMAIN runs :
          /\ Len(runs[r].tasks) = Len(I) * Len(C)
          /\ \A i \in 0 .. (Len(I) - 1), j \in 0 .. (Len(C) - 1) :
               runs[r].tasks[i * Len(C) + j + 1] = [imageId |-> I[i + 1].id, color |-> C[j + 1]]

\* C15 happens: two images and three colors give six items, and the fourth
\* item is the second image with the first color
C15_Witness ==
  /\ Len(runs) = 1 /\ Len(images) = 2 /\ Len(settings.targetColors) = 3
  /\ images[1].id > images[2].id
  /\ Len(runs[1].tasks) = 6
  /\ runs[1].tasks[4] = [imageId |-> images[2].id, color |-> settings.targetColors[1]]

\* C16: every completed entry, recolor image or generated design, has at least
\* one result.
C16_CompletedHasResult ==
  /\ \A k \in DOMAIN images :
       images[k].status = "completed" => Len(images[k].results) > 0
  /\ \A k \in DOMAIN generatedDesigns :
       generatedDesigns[k].status = "completed" => Len(generatedDesigns[k].results) > 0

\* C16 happens: a recolor image completed although one of its two colors
\* failed, and a generated design completed
C16_Witness ==
  /\ \E k \in DOMAIN images :
       /\ images[k].status = "completed" /\ Len(images[k].results) = 1
       /\ \E r \in DOMAIN runs : runs[r].pc = "done" /\ Len(runs[r].tasks) = 2
  /\ \E k \in DOMAIN generatedDesigns :
       /\ generatedDesigns[k].status = "completed"
       /\ Len(generatedDesigns[k].results) = 1

\* this step is the one in which run r ends
Ends(r) ==
  /\ r \in DOMAIN runs
  /\ runs[r].pc = "delay"
  /\ runs'[r].pc = "done"

\* C17: when a run ends, every image of the workspace for which an item of the
\* run succeeded is completed, and every image in error without a result is
\* an image of the run for which no item succeeded.
C17_StatusAtEnd ==
  [][ \A r \in DOMAIN runs :
        Ends(r) =>
          \A k \in DOMAIN images' :
            /\ images'[k].id \in runs[r].succeeded => images'[k].status = "completed"
            /\ (images'[k].status = "error" /\ images'[k].results = << >>) =>
                 /\ images'[k].id \notin runs[r].succeeded
                 /\ \E t \in DOMAIN runs[r].tasks :
                      runs[r].tasks[t].imageId = images'[k].id ]_vars

\* C17 happens: a run of two colors on one image has ended; the first color
\* succeeded, the second failed, and the image is completed
C17_Witness ==
  /\ Len(runs) = 1 /\ runs[1].pc = "done"
  /\ Len(runs[1].tasks) = 2 /\ runs[1].completedTasks = 2
  /\ runs[1].tasks[1].imageId = runs[1].tasks[2].imageId
  /\ \E k \in DOMAIN images :
       /\ images[k].id = runs[1].tasks[1].imageId
       /\ images[k].status = "completed"
       /\ Len(images[k].results) = 1
       /\ images[k].results[1].color = runs[1].tasks[1].color

\* C18: in every state 0 <= completedTasks <= totalTasks for every run; a step
\* never changes totalTasks, changes completedTasks only by adding one when an
\* item ends, and changes the published progress only to 0 at the start of a
\* run or to the new count when an item ends.
C18_ProgressMonotonic ==
  /\ [](\A r \in DOMAIN runs :
          0 <= runs[r].completedTasks /\ runs[r].completedTasks <= runs[r].totalTasks)
  /\ [][ /\ \A r \in DOMAIN runs :
              /\ runs'[r].totalTasks = runs[r].totalTasks
              /\ runs'[r].completedTasks =
                   runs[r].completedTasks + (IF Settles(r) THEN 1 ELSE 0)
         /\ Len(runs') > Len(runs) =>
              /\ runs'[Len(runs')].completedTasks = 0
              /\ processingProgress' = <<0, 1>>
         /\ (Len(runs') = Len(runs) /\ processingProgress' # processingProgress) =>
              \E r \in DOMAIN runs :
                /\ Settles(r)
                /\ processingProgress' = <<runs'[r].completedTasks, runs'[r].totalTasks>> ]_vars

\* C18 happens: the second of three items has failed and the progress is 2 of 3
C18_Witness ==
  \E r \in DOMAIN runs :
    /\ runs[r].pc = "delay" /\ runs[r].last.outcome = "failure"
    /\ runs[r].completedTasks = 2 /\ runs[r].totalTasks = 3
    /\ processingProgress = <<2, 3>>

\* the color hexes of a result list
HexesOf(results) == { results[k].color.hex : k \in DOMAIN results }

\* C19: no step makes the result list of an image that stays in the workspace
\* shorter or drops a color hex from it.
C19_ResultsKept ==
  [][ \A a \in DOMAIN images, b \in DOMAIN images' :
        images'[b].id = images[a].id =>
          /\ Len(images'[b].results) >= Len(images[a].results)
          /\ HexesOf(images[a].results) \subseteq HexesOf(images'[b].results) ]_vars

\* C19 happens: an image got a variant in a first run, and in a second run its
\* only item, for another color, has failed; the first variant is still there
C19_Witness ==
  /\ Len(runs) = 2 /\ runs[2].pc = "delay" /\ runs[2].last.outcome = "failure"
  /\ runs[2].totalTasks = 1
  /\ runs[2].tasks[1].color # runs[1].tasks[1].color
  /\ \E k \in DOMAIN images :
       /\ images[k].id = runs[2].tasks[1].imageId
       /\ Len(images[k].results) = 1
       /\ images[k].results[1].color = runs[1].tasks[1].color

\* C20: a run works on the snapshot taken when it started: its task list is
\* built from the images and colors of that moment, and no later step, user
\* edit or not, changes its task list, its count, its tier or its settings;
\* each dispatch takes the next item of that list and each delay is the one
\* of the tier of the snapshot.
C20_RunUsesSnapshot ==
  [][ /\ Len(runs') > Len(runs) =>
           LET run == runs'[Len(runs')]
           IN /\ run.settings = settings
              /\ Len(run.tasks) = Len(images) * Len(settings.targetColors)
              /\ \A t \in DOMAIN run.tasks :
                   /\ \E k \in DOMAIN images : images[k].id = run.tasks[t].imageId
                   /\ run.tasks[t].color \in Range(settings.targetColors)
      /\ \A r \in DOMAIN runs :
           /\ runs'[r].tasks = runs[r].tasks
           /\ runs'[r].totalTasks = runs[r].totalTasks
           /\ runs'[r].settings = runs[r].settings
           /\ Len(runs'[r].dispatched) > Len(runs[r].dispatched) =>
                runs'[r].dispatched =
                  Append(runs[r].dispatched, runs[r].tasks[Len(runs[r].dispatched) + 1])
           /\ Settles(r) =>
                runs'[r].timer = (IF runs[r].settings.modelTier = "pro" THEN 5000 ELSE 2000) ]_vars

\* C20 happens: during a flash run of two items the user switched to the pro
\* tier and changed the colors; the first item ended and the run waits the
\* flash delay
C20_Witness ==
  \E r \in DOMAIN runs :
    /\ runs[r].pc = "delay" /\ runs[r].i = 1 /\ runs[r].totalTasks = 2
    /\ runs[r].settings.modelTier = "flash" /\ runs[r].timer = 2000
    /\ settings.modelTier = "pro"
    /\ settings.targetColors # runs[r].settings.targetColors

\* the position of color c in a list of colors, 0 when absent
RECURSIVE IndexOf(_, _)
IndexOf(colors, c) ==
  IF colors = << >> THEN 0
  ELSE IF colors[Len(colors)] = c /\ IndexOf(SubSeq(colors, 1, Len(colors) - 1), c) = 0
    THEN Len(colors)
  ELSE IndexOf(SubSeq(colors, 1, Len(colors) - 1), c)

\* C21: when an item succeeds its variant becomes the last one of the image's
\* result list and the other variants keep their relative order; and while
\* only one run has been started, the variants of every image are in the
\* order of the run's color selection.
C21_CompletionOrder ==
  /\ [][ \A r \in DOMAIN runs :
            (Settles(r) /\ runs'[r].last.outcome = "success") =>
              LET task == runs[r].tasks[runs[r].i]
              IN \A a \in DOMAIN images, b \in DOMAIN images' :
                   (images[a].id = task.imageId /\ images'[b].id = task.imageId) =>
                     LET new == images'[b].results
                         others == SelectSeq(images[a].results,
                                             LAMBDA v : v.color.hex # task.color.hex)
                     IN /\ Len(new) = Len(others) + 1
                        /\ new[Len(new)].color = task.color
                        /\ SubSeq(new, 1, Len(new) - 1) = others ]_vars
  /\ [](Len(runs) = 1 =>
          \A k \in DOMAIN images :
            \A a, b \in DOMAIN images[k].results :
              a < b =>
                /\ IndexOf(runs[1].settings.targetColors, images[k].results[a].color) > 0
                /\ IndexOf(runs[1].settings.targetColors, images[k].results[a].color)
                     < IndexOf(runs[1].settings.targetColors, images[k].results[b].color))

\* C21 happens: two colors succeeded in a first run, the first color succeeded
\* again in a second run, and its variant is now the last of the two
C21_Witness ==
  /\ Len(runs) = 2 /\ runs[2].pc = "delay" /\ runs[2].last.outcome = "success"
  /\ Len(runs[1].tasks) = 2
  /\ \E k \in DOMAIN images :
       /\ images[k].id = runs[2].tasks[1].imageId
       /\ Len(images[k].results) = 2
       /\ images[k].results[1].color = runs[1].tasks[2].color
       /\ images[k].results[2].color = runs[1].tasks[1].color
       /\ runs[2].tasks[1].color = runs[1].tasks[1].color

\* C22: the step in which an item ends counts it, publishes the progress and
\* starts the inter-item delay of the run's tier, 2000 ms for flash and 5000 ms
\* for pro, without dispatching anything; an item after the first is
\* dispatched only by the step in which that delay has elapsed.
C22_DelayBetweenItems ==
  [][ \A r \in DOMAIN runs :
        /\ Settles(r) =>
             /\ runs'[r].completedTasks = runs[r].completedTasks + 1
             /\ processingProgress' = <<runs'[r].completedTasks, runs[r].totalTasks>>
             /\ runs'[r].dispatched = runs[r].dispatched
             /\ runs'[r].timer =
                  (IF runs[r].settings.modelTier = "pro" THEN 5000 ELSE 2000)
        /\ Len(runs'[r].dispatched) > Len(runs[r].dispatched) =>
             /\ runs[r].pc = "delay"
             /\ runs[r].timer =
                  (IF runs[r].settings.modelTier = "pro" THEN 5000 ELSE 2000)
             /\ runs[r].completedTasks = Len(runs[r].dispatched) ]_vars

\* C22 happens: the first of two items of a pro run has failed, the progress
\* is 1 of 2 and the run waits 5000 ms
C22_Witness ==
  \E r \in DOMAIN runs :
    /\ runs[r].pc = "delay" /\ runs[r].settings.modelTier = "pro"
    /\ runs[r].timer = 5000 /\ runs[r].last.outcome = "failure"
    /\ runs[r].completedTasks = 1 /\ runs[r].totalTasks = 2
    /\ processingProgress = <<1, 2>>

\* C23: a step that is not a step of a batch run (an upload, a selection of
\* the active variant, a color edit, a sampled color, a removal) changes
\* neither the status, nor the results, nor the error message of an image
\* that stays in the workspace, and an upload only appends a pending image
\* without results.
C23_OnlyRunsWriteStatus ==
  [][ runs' = runs =>
        /\ \A a \in DOMAIN images, b \in DOMAIN images' :
             images'[b].id = images[a].id =>
               /\ images'[b].status = images[a].status
               /\ images'[b].results = images[a].results
               /\ images'[b].errorMsg = images[a].errorMsg
        /\ Len(images') > Len(images) =>
             /\ SubSeq(images', 1, Len(images)) = images
             /\ Len(images') = Len(images) + 1
             /\ images'[Len(images')].status = "pending"
             /\ images'[Len(images')].results = << >> ]_vars

\* C23 happens: after a run completed the first image a second image was
\* uploaded and a color was sampled; the first image is still completed
C23_Witness ==
  /\ isSampling
  /\ \E c \in Range(settings.targetColors) : c.hex \in SampledHexes
  /\ Len(images) = 2
  /\ images[1].status = "completed" /\ Len(images[1].results) = 1
  /\ images[2].status = "pending"

\* C30: when a run ends, every image of the workspace that had an item in the
\* run is completed or in error.
C30_SettledAtEnd ==
  [][ \A r \in DOMAIN runs :
        Ends(r) =>
          \A k \in DOMAIN images' :
            (\E t \in DOMAIN runs[r].tasks : runs[r].tasks[t].imageId = images'[k].id)
              => images'[k].status \in {"completed", "error"} ]_vars

\* C24: while every retry of an invocation has had the same classification,
\* the pre-jitter delay of a retry is positive and not below the pre-jitter
\* delay of the retry before it.
C24_BackoffNonDecreasing ==
  /\ wr.sleeps >= 1 => wr.backoff >= wr.baseDelay * TicksPerMs
  /\ (wr.sleeps >= 2 /\ wr.sameClass) => wr.prevBackoff <= wr.backoff

\* C24 happens: eight rate-limit retries with baseDelay 4000; the eighth
\* pre-jitter delay is 4000 * 2.5^7 = 2441406.25 ms
C24_Witness ==
  /\ wr.sleeps = 8 /\ wr.sameClass /\ wr.warn.class = "QUOTA EXHAUSTED"
  /\ wr.baseDelay = 4000
  /\ wr.backoff = 156250000
  /\ wr.prevBackoff = 62500000

\* C25: the delay slept before a retry is max(2000 ms, d + j) with |j| <= d/4:
\* it is at least 2000 ms and, when 0.75 d >= 2000 ms, between 0.75 d and
\* 1.25 d; and fn is invoked again only by the step in which that sleep ends.
C25_SleepDelay ==
  /\ [](wr.st = "sleeping" =>
          LET d == wr.backoff
              j == wr.jitter
              floor == MinDelayMs * TicksPerMs
          IN /\ 0 - d <= 4 * j /\ 4 * j <= d
             /\ wr.delay >= floor
             /\ wr.delay = (IF d + j >= floor THEN d + j ELSE floor)
             /\ 3 * d >= 4 * floor => (3 * d <= 4 * wr.delay /\ 4 * wr.delay <= 5 * d))
  /\ [][ /\ wr'.calls > wr.calls => (wr.st = "sleeping" /\ wr'.calls = wr.calls + 1)
         /\ wr.st = "sleeping" => wr'.st = "calling" ]_vars

\* C25 happens: with baseDelay 2000 the first retry has d = 2000 ms and
\* j = -500 ms, and the sleep is raised to 2000 ms
C25_Witness ==
  /\ wr.st = "sleeping" /\ wr.attempt = 1
  /\ wr.backoff = 128000 /\ wr.jitter = 0 - 32000
  /\ wr.delay = 128000

\* C26: one warning is written for every retry, in the step that starts the
\* backoff sleep, with the attempt number, the classification and the delay
\* in seconds; none is written for a success, a fatal error or the failure
\* that uses up the budget.  So while an attempt is pending and when withRetry
\* has settled the warnings are one fewer than the attempts.
C26_OneWarningPerRetry ==
  /\ [](/\ wr.warns = wr.sleeps
        /\ wr.st \in {"calling", "returned", "thrown"} => wr.warns = wr.calls - 1
        /\ wr.st = "sleeping" =>
             /\ wr.warns = wr.calls
             /\ wr.warn.attempt = wr.attempt /\ wr.warn.retries = wr.retries
             /\ wr.warn.class = (IF MarkersIn[wr.raised] \cap {"429", "RESOURCE_EXHAUSTED"} # {}
                                   THEN "QUOTA EXHAUSTED" ELSE "Transient error")
             /\ 2 * (wr.warn.seconds * 1000 * TicksPerMs - wr.delay) <= 1000 * TicksPerMs
             /\ 2 * (wr.delay - wr.warn.seconds * 1000 * TicksPerMs) <= 1000 * TicksPerMs)
  /\ [][ wr'.warns # wr.warns =>
           (wr'.warns = wr.warns + 1 /\ wr.st = "calling" /\ wr'.st = "sleeping") ]_vars

\* C26 happens: three transient failures, each with its warning, then a fatal
\* error on the fourth attempt, without one
C26_Witness ==
  /\ wr.st = "thrown" /\ wr.calls = 4 /\ wr.warns = 3
  /\ ~HasTransientMarker(wr.error)
  /\ wr.retries = DefaultRetries

\* the pointer of a call lies on the element
InBounds(c) ==
  /\ 0 <= c.x /\ c.x < sampler.image.dw
  /\ 0 <= c.y /\ c.y < sampler.image.dh

\* C27: a call of either sampling function with the pointer (x, y) on the
\* element asks for the pixel (floor(x * naturalWidth / displayWidth),
\* floor(y * naturalHeight / displayHeight)), and that pixel lies in the image.
C27_PixelMapping ==
  LET c == sampler.last
  IN (c.ev # "none" /\ c.nw > 0 /\ InBounds(c)) =>
       /\ c.px = (c.x * c.nw) \div sampler.image.dw
       /\ c.py = (c.y * c.nh) \div sampler.image.dh
       /\ 0 <= c.px /\ c.px < c.nw
       /\ 0 <= c.py /\ c.py < c.nh

\* the number a string of uppercase hexadecimal digits denotes
RECURSIVE HexValue(_)
HexValue(digits) ==
  IF digits = << >> THEN 0
  ELSE 16 * HexValue(SubSeq(digits, 1, Len(digits) - 1))
       + (CHOOSE d \in 0 .. 15 : UpperHexDigits[d + 1] = digits[Len(digits)])

IsHexOf(hex, pixel) ==
  /\ Len(hex) = 7
  /\ hex[1] = "#"
  /\ \A k \in 2 .. 7 : \E d \in 1 .. 16 : UpperHexDigits[d] = hex[k]
  /\ HexValue(Tail(hex)) = pixel.r * 65536 + pixel.g * 256 + pixel.b

\* C28: the string a sampling call returns is '#' and six uppercase
\* hexadecimal digits whose value is R*65536 + G*256 + B of the pixel data
\* read, and two calls that return the same string read the same R, G, B.
C28_HexFormat ==
  /\ sampler.last.ev # "none" => IsHexOf(sampler.last.hex, sampler.last.pixel)
  /\ sampler.first.ev # "none" => IsHexOf(sampler.first.hex, sampler.first.pixel)
  /\ sampler.kind # "none" /\ sampler.last.ev = "move" => sampler.hoverColor = sampler.last.hex
  /\ sampler.first.hex = sampler.last.hex =>
       /\ sampler.first.pixel.r = sampler.last.pixel.r
       /\ sampler.first.pixel.g = sampler.last.pixel.g
       /\ sampler.first.pixel.b = sampler.last.pixel.b

\* C28 happens: the painted pixel (0, 255, 255) is returned with its leading
\* zeros and in upper case, after the blank canvas was read as #000000
C28_Witness ==
  /\ sampler.last.isLoaded /\ sampler.last.pixel.a = 255
  /\ sampler.last.pixel.r = 0 /\ sampler.last.pixel.g = 255 /\ sampler.last.pixel.b = 255
  /\ sampler.last.hex = << "#", "0", "0", "F", "F", "F", "F" >>
  /\ sampler.first.hex = << "#", "0", "0", "0", "0", "0", "0" >>
  /\ sampler.first.pixel = TransparentBlack

\* C29: two sampling calls at the same location of the same image return the
\* same string, whatever was sampled in between.
C29_SameLocationSameHex ==
  ( /\ sampler.first.ev # "none" /\ sampler.last.ev # "none"
    /\ sampler.first.x = sampler.last.x /\ sampler.first.y = sampler.last.y )
  => sampler.first.hex = sampler.last.hex

\* C31: an image with status completed carries no error message.
C31_CompletedHasNoError ==
  \A k \in DOMAIN images :
    images[k].status = "completed" => images[k].errorMsg = Undefined

\* C32: an image or a design with status error has an empty result list.
C32_ErrorHasNoResult ==
  /\ \A k \in DOMAIN images :
       images[k].status = "error" => Len(images[k].results) = 0
  /\ \A k \in DOMAIN generatedDesigns :
       generatedDesigns[k].status = "error" => Len(generatedDesigns[k].results) = 0

\* C32 happens: the only item of an image has failed and left it in error
\* without variants, next to an image that has a variant
C32_Witness ==
  /\ \E k \in DOMAIN images :
       /\ images[k].status = "error" /\ images[k].errorMsg # Undefined
       /\ Len(images[k].results) = 0
  /\ \E k \in DOMAIN images : images[k].status = "completed" /\ Len(images[k].results) > 0

\* C33: the activeResultIndex of an image or a design, when defined, is an
\* index of its result list.
C33_ActiveIndexInRange ==
  /\ \A k \in DOMAIN images :
       images[k].activeResultIndex # << >> =>
         /\ 0 <= images[k].activeResultIndex[1]
         /\ images[k].activeResultIndex[1] < Len(images[k].results)
  /\ \A k \in DOMAIN generatedDesigns :
       generatedDesigns[k].activeResultIndex # << >> =>
         /\ 0 <= generatedDesigns[k].activeResultIndex[1]
         /\ generatedDesigns[k].activeResultIndex[1] < Len(generatedDesigns[k].results)

\* C33 happens: an image has two variants, the first one selected by
\* setActiveResult, after a variant of it was replaced by a later run
C33_Witness ==
  \E k \in DOMAIN images :
    /\ Len(images[k].results) = 2
    /\ images[k].activeResultIndex = <<0>>
    /\ Len(runs) = 2 /\ runs[2].pc = "done"

\* the error text carries a marker of a rate limit
HasRateLimitMarker(e) == MarkersIn[e] \cap {"429", "RESOURCE_EXHAUSTED"} # {}

\* C34: the step in which a failed item gives its image the rate-limit
\* message, or raises the rate-limit flag, ends a call that made retries + 1
\* attempts; and every error text with a rate-limit marker has a transient
\* marker for withRetry.
C34_RateLimitOnlyByExhaustion ==
  /\ [](\A e \in DOMAIN MarkersIn : HasRateLimitMarker(e) => IsTransient(e))
  /\ [][ \A r \in DOMAIN runs :
           (Settles(r) /\ runs'[r].last.outcome = "failure") =>
             /\ (\E k \in DOMAIN images :
                    /\ images[k].id = runs[r].tasks[runs[r].i].imageId
                    /\ images[k].results = << >>
                    /\ images'[k].errorMsg = Messages.rateLimit)
                  => runs'[r].last.calls = DefaultRetries + 1
             /\ HasRateLimitMarker(runs'[r].last.error)
                  => runs'[r].last.calls = DefaultRetries + 1
             /\ (rateLimitActive' /\ ~rateLimitActive)
                  => runs'[r].last.calls = DefaultRetries + 1 ]_vars

\* C34 happens: the image of the second item shows the rate-limit message and
\* the flag is up, after 9 attempts of that item
C34_Witness ==
  \E r \in DOMAIN runs :
    /\ runs[r].pc = "delay" /\ runs[r].i = 2
    /\ runs[r].last.outcome = "failure" /\ runs[r].last.calls = DefaultRetries + 1
    /\ HasRateLimitMarker(runs[r].last.error)
    /\ rateLimitActive
    /\ \E img \in ImageOf(images, runs[r].tasks[2].imageId) :
         img.status = "error" /\ img.errorMsg = Messages.rateLimit

\* C35: every failure is classified on its own error: once an attempt has
\* failed with a fatal error, withRetry has thrown that error and that attempt
\* was the last one, so the attempts made are the attempts up to the first
\* fatal error, all earlier ones having been retried; nothing follows.
C35_FirstFatalEndsIt ==
  /\ [](~wr.allTransient =>
          /\ wr.st = "thrown"
          /\ ~HasTransientMarker(wr.raised)
          /\ wr.error = wr.raised
          /\ wr.calls = wr.attempt
          /\ wr.sleeps = wr.calls - 1
          /\ wr.warns = wr.calls - 1
          /\ wr.calls <= wr.retries + 1)
  /\ [][ (~wr'.allTransient /\ wr.allTransient) =>
           /\ wr.st = "calling"
           /\ wr'.calls = wr.calls /\ wr'.sleeps = wr.sleeps ]_vars
  /\ [][ ~wr.allTransient => wr' = wr ]_vars

\* C35 happens: two transient failures, then a fatal one on the third of nine
\* possible attempts
C35_Witness ==
  /\ wr.st = "thrown" /\ ~wr.allTransient
  /\ wr.retries = DefaultRetries
  /\ wr.calls = 3 /\ wr.sleeps = 2
  /\ wr.error = NoImageDataError

\* the image of the pending item of run r is no longer in the workspace
ItemImageRemoved(r) ==
  /\ runs[r].i \in DOMAIN runs[r].tasks
  /\ ImageOf(images, runs[r].tasks[runs[r].i].imageId) = {}

\* C36: the items of a removed image stay in the queue: after each item the
\* next item of the queue is dispatched whether or not its image is still
\* there, and the run ends only after the last item; an item whose image is
\* gone is counted when its call ends, and that step leaves the image list as
\* it is, so no image is changed and the removed one is not put back.
C36_RemovedImageItems ==
  /\ [][ \A r \in DOMAIN runs :
           (runs[r].pc = "delay" /\ runs'[r] # runs[r]) =>
             IF runs[r].i < Len(runs[r].tasks)
               THEN /\ runs'[r].pc = "await" /\ runs'[r].i = runs[r].i + 1
                    /\ runs'[r].dispatched = Append(runs[r].dispatched, runs[r].tasks[runs[r].i + 1])
                    /\ <<r, runs[r].i + 1>> \in inflight'
               ELSE runs'[r].pc = "done" ]_vars
  /\ [][ \A r \in DOMAIN runs :
           (Settles(r) /\ ItemImageRemoved(r)) =>
             /\ images' = images
             /\ runs'[r].completedTasks = runs[r].completedTasks + 1
             /\ processingProgress' = <<runs[r].completedTasks + 1, runs[r].totalTasks>> ]_vars

\* C36 happens: the second item of a run, of an image removed while the
\* first call was pending, has succeeded, and the other image is as the first
\* item left it
C36_Witness ==
  \E r \in DOMAIN runs :
    /\ runs[r].pc = "delay" /\ runs[r].i = 2 /\ runs[r].totalTasks = 2
    /\ runs[r].last.outcome = "success"
    /\ runs[r].completedTasks = 2
    /\ ImageOf(images, runs[r].tasks[2].imageId) = {}
    /\ Len(images) = 1
    /\ images[1].id = runs[r].tasks[1].imageId
    /\ images[1].status = "error"

\* C37: no two selected colors have hex strings that are equal without regard
\* to case, and no run has two items of one image with such colors.
C37_NoDuplicateColors ==
  /\ \A a, b \in DOMAIN settings.targetColors :
       a # b => ToLowerCase(settings.targetColors[a].hex)
                  # ToLowerCase(settings.targetColors[b].hex)
  /\ \A r \in DOMAIN runs : \A a, b \in DOMAIN runs[r].tasks :
       (a # b /\ runs[r].tasks[a].imageId = runs[r].tasks[b].imageId)
         => ToLowerCase(runs[r].tasks[a].color.hex) # ToLowerCase(runs[r].tasks[b].color.hex)

\* C37 happens: a run on a selection made of a custom #ffffff, then Add Set,
\* which leaves Pure White (#FFFFFF) out
C37_Witness ==
  /\ Len(settings.targetColors) = 3
  /\ settings.targetColors[1].hex = "#ffffff"
  /\ Range(settings.targetColors) \cap ColorLibrary = {MidnightBlack, HeatherGray}
  /\ Len(runs) = 1 /\ Len(runs[1].tasks) = 3 * Len(images) /\ Len(images) >= 2

\* the entry of invocation g is settled: completed with exactly one result and
\* active index 0, or error with no result and the failure message
SettledDesign(d) ==
  \/ d.status = "completed" /\ Len(d.results) = 1 /\ d.activeResultIndex = <<0>>
  \/ d.status = "error" /\ Len(d.results) = 0 /\ d.errorMsg = GenerateFailedMessage

GenRejected == lastStart \in {"noPrompt", "noKey"}

\* C38: in the step in which the generate call of an invocation settles, the
\* placeholder of that invocation, if still in the list, becomes completed with
\* exactly one result and active index 0 or error with no result and an error
\* message, the processing flag becomes false, and every other design and every
\* recolor image stays as it was; a call of handleGenerateImage with an empty
\* prompt or with a key flag other than true adds no placeholder and no pending
\* call, and a call that is accepted had a prompt and a true key flag and adds
\* one processing placeholder and one pending call.
C38_GenerateSettles ==
  [][ /\ \A g \in gens : g \notin gens' =>
           /\ isProcessing' = FALSE
           /\ images' = images
           /\ DOMAIN generatedDesigns' = DOMAIN generatedDesigns
           /\ \A k \in DOMAIN generatedDesigns :
                IF generatedDesigns[k].id = g.newGenId
                  THEN /\ generatedDesigns'[k].id = g.newGenId
                       /\ SettledDesign(generatedDesigns'[k])
                  ELSE generatedDesigns'[k] = generatedDesigns[k]
      /\ GenRejected' =>
           /\ genSettings.prompt = "" \/ hasApiKey # "true"
           /\ generatedDesigns' = generatedDesigns
           /\ gens' = gens
           /\ images' = images
      /\ lastStart' = "generate" =>
           /\ genSettings.prompt # "" /\ hasApiKey = "true"
           /\ Len(generatedDesigns') = Len(generatedDesigns) + 1
           /\ generatedDesigns'[1].status = "processing"
           /\ Cardinality(gens') = Cardinality(gens) + 1 ]_vars

\* C38 happens: two generate calls were pending at once and both settled, one
\* with an image and one with a failure, next to an uploaded recolor image
C38_Witness ==
  /\ Len(generatedDesigns) = 2 /\ gens = {} /\ ~isProcessing
  /\ generatedDesigns[1].status = "error" /\ generatedDesigns[1].results = << >>
  /\ generatedDesigns[1].errorMsg = GenerateFailedMessage
  /\ generatedDesigns[2].status = "completed" /\ Len(generatedDesigns[2].results) = 1
  /\ generatedDesigns[2].activeResultIndex = <<0>>
  /\ Len(images) = 1

\* C39: a click of the ImageSampler that hands a color to onColorPicked comes
\* after handleImageLoad, and reads a canvas that holds the copy of the image.
C39_ClickOnlyAfterLoad ==
  (sampler.kind = "ImageSampler" /\ sampler.last.ev = "click")
    => (sampler.last.isLoaded /\ sampler.canvas.painted)

====
